---------------------------- MODULE Spec2Model ----------------------------
(***************************************************************************)
(* A model of the QEMU Object Model core (src/qom/object.c): the type      *)
(* registry, lazy class initialisation, object construction, reference     *)
(* counting and finalisation, and class enumeration.                       *)
(*                                                                         *)
(* Every C function that touches program state is an operator from a       *)
(* program state record `st` to the program state after the call (or to a  *)
(* record [st, ret] when the function returns a value).  A fatal error     *)
(* (g_assert, abort) sets st.aborted; every operator is the identity on an *)
(* aborted state, which is how "the process terminated here" is modelled.  *)
(***************************************************************************)
EXTENDS Integers, Sequences, FiniteSets, TLC

VARIABLES
    type_table,         \* the registry: type name -> pointer to TypeImpl
    types,              \* the TypeImpl structures allocated by type_new, by pointer
    classes,            \* the class structures allocated by type_initialize, by pointer
    objects,            \* every instance storage handed to the object functions
    enumerating_types,  \* the static flag of object.c
    enum_stack,         \* the object_class_foreach calls in progress, innermost last
    aborted,            \* "" while the process runs, else the fatal diagnostic
    class_init_runs,    \* per TypeImpl: how often its class_init hook was called
    last                \* the most recent API call and the hooks it invoked

vars == <<type_table, types, classes, objects, enumerating_types, enum_stack,
          aborted, class_init_runs, last>>

-----------------------------------------------------------------------------
(* Bounds of the exploration.                                              *)

\* instance storages (object_new + object_initialize calls) per run
MaxObjects == 1
\* single object_ref / object_unref calls per object
MaxRefCalls == 3
\* nesting depth of object_class_foreach calls
MaxEnumDepth == 2

-----------------------------------------------------------------------------
(* Program constants (LP64 layout).                                        *)

\* guint32 ref: arithmetic on the reference count is modulo 2^32.  A count is
\* kept as two 16-bit halves, [hi, lo] standing for hi * 2^16 + lo.
HalfMod == 65536
\* sizeof(Object): class, free, properties, ref (+ padding), parent
SizeofObject == 40
\* sizeof(ObjectClass): type, interfaces, 2 x 4 cast cache, unparent, properties
SizeofObjectClass == 96
\* sizeof(InterfaceClass): ObjectClass + concrete_class + interface_type
SizeofInterfaceClass == 112
\* sizeof(Base), sizeof(BaseClass) of the demo type
SizeofBase == 48
SizeofBaseClass == 104
\* sizeof(void (*)(void *)): one method pointer of a class structure
SizeofMethod == 8
\* the length of the array TypeImpl.interfaces
MAX_INTERFACES == 32

U32(hi, lo) == [hi |-> hi, lo |-> lo]
U32Zero == U32(0, 0)
U32One == U32(0, 1)
U32Max == U32(HalfMod - 1, HalfMod - 1)

\* x - 1 in guint32 arithmetic: 0 wraps to 2^32 - 1
U32Dec(x) ==
    IF x.lo > 0 THEN U32(x.hi, x.lo - 1)
    ELSE IF x.hi > 0 THEN U32(x.hi - 1, HalfMod - 1)
    ELSE U32Max

U32Less(x, y) == x.hi < y.hi \/ (x.hi = y.hi /\ x.lo < y.lo)

\* x - n for n <= x
U32Sub(x, n) ==
    IF x.lo >= n.lo THEN U32(x.hi - n.hi, x.lo - n.lo)
    ELSE U32(x.hi - n.hi - 1, x.lo + HalfMod - n.lo)

\* NULL as a pointer to an instance storage (an index into objects)
NULL == 0
\* a NULL char pointer
NoName == ""
\* NULL as a pointer to a TypeImpl or to a class structure.  Such a pointer is a
\* string: the name of the type the structure was allocated for, followed by one
\* "'" for every structure allocated for that name before it.
NoType == ""
NoClass == ""

RECURSIVE FreshPtr(_, _)
FreshPtr(heap, name) ==
    IF name \in DOMAIN heap THEN FreshPtr(heap, name \o "'") ELSE name

\* the heap with a new structure v at pointer p
Alloc(heap, p, v) == [q \in DOMAIN heap \cup {p} |-> IF q = p THEN v ELSE heap[q]]

TYPE_OBJECT == "object"
TYPE_INTERFACE == "interface"
TYPE_BASE == "base"

OBJECT_NEW_PHASE == 0
TYPE_REGISTER_PHASE == 1

-----------------------------------------------------------------------------
(* TypeInfo values offered to registration.                                *)

TypeInfo(name, parent, isize, csize, abstract, hooks, phase, ifaces) ==
    [name |-> name, parent |-> parent,
     instance_size |-> isize, class_size |-> csize, abstract |-> abstract,
     class_init |-> "class_init" \in hooks,
     class_base_init |-> "class_base_init" \in hooks,
     instance_init |-> "instance_init" \in hooks,
     instance_finalize |-> "instance_finalize" \in hooks,
     type_init_phase |-> phase, interfaces |-> ifaces]

interface_info ==
    TypeInfo(TYPE_INTERFACE, NoName, 0, SizeofInterfaceClass, TRUE, {},
             OBJECT_NEW_PHASE, <<>>)

object_info ==
    TypeInfo(TYPE_OBJECT, NoName, SizeofObject, 0, TRUE, {},
             OBJECT_NEW_PHASE, <<>>)

\* the demo type of base.c, with a finalizer added
base_info ==
    TypeInfo(TYPE_BASE, TYPE_OBJECT, SizeofBase, SizeofBaseClass, FALSE,
             {"class_init", "instance_init", "instance_finalize"},
             OBJECT_NEW_PHASE, <<>>)

\* a subtype that inherits both sizes and is initialised at registration
derived_info ==
    TypeInfo("derived", TYPE_BASE, 0, 0, FALSE,
             {"class_init", "class_base_init", "instance_init",
              "instance_finalize"},
             TYPE_REGISTER_PHASE, <<>>)

\* instance_size 0 below "object": the size is inherited
x_info ==
    TypeInfo("x", TYPE_OBJECT, 0, 0, FALSE, {"class_init"},
             OBJECT_NEW_PHASE, <<>>)

\* instance_size 0 below "interface": the effective size is 0
ifoo_info ==
    TypeInfo("ifoo", TYPE_INTERFACE, 0, 0, FALSE, {"class_init"},
             OBJECT_NEW_PHASE, <<>>)

\* declared abstract, with a usable instance size
abs_info ==
    TypeInfo("abs", TYPE_BASE, SizeofBase, 0, TRUE, {"class_init"},
             OBJECT_NEW_PHASE, <<>>)

CoreInfos == {base_info, derived_info, x_info, ifoo_info, abs_info}

\* a subtype of "derived" whose class adds two method pointers to BaseClass
leaf_info ==
    TypeInfo("leaf", "derived", 0, SizeofBaseClass + 2 * SizeofMethod, FALSE,
             {"class_init", "class_base_init", "instance_init"},
             OBJECT_NEW_PHASE, <<>>)

\* a subtype of "leaf" that inherits both sizes
tip_info ==
    TypeInfo("tip", "leaf", 0, 0, FALSE, {"class_init"}, OBJECT_NEW_PHASE, <<>>)

\* a type whose class_init looks up the class of its subtype "kid" by name
eager_info ==
    TypeInfo("eager", TYPE_OBJECT, SizeofBase, SizeofBaseClass, FALSE,
             {"class_init"}, OBJECT_NEW_PHASE, <<>>)

kid_info ==
    TypeInfo("kid", "eager", 0, 0, FALSE, {"class_init"}, OBJECT_NEW_PHASE, <<>>)

\* an interface below "ifoo"
ibar_info ==
    TypeInfo("ibar", "ifoo", 0, 0, TRUE, {}, OBJECT_NEW_PHASE, <<>>)

\* a type that implements "ifoo"
impl_info ==
    TypeInfo("impl", TYPE_OBJECT, SizeofBase, 0, FALSE, {}, OBJECT_NEW_PHASE,
             <<"ifoo">>)

\* a subtype of "impl" that declares the sub-interface "ibar"
sub_info ==
    TypeInfo("sub", "impl", 0, 0, FALSE, {}, OBJECT_NEW_PHASE, <<"ibar">>)

\* a type that declares "ibar" before its super-interface "ifoo"
rev_info ==
    TypeInfo("rev", TYPE_OBJECT, SizeofBase, 0, FALSE, {}, OBJECT_NEW_PHASE,
             <<"ibar", "ifoo">>)

\* a type that declares "ifoo" before its sub-interface "ibar"
fwd_info ==
    TypeInfo("fwd", TYPE_OBJECT, SizeofBase, 0, FALSE, {}, OBJECT_NEW_PHASE,
             <<"ifoo", "ibar">>)

\* a type whose parent name is never registered
orphan_info ==
    TypeInfo("orphan", "nowhere", SizeofBase, 0, FALSE, {}, OBJECT_NEW_PHASE, <<>>)

\* a type that declares an interface whose name is never registered
noif_info ==
    TypeInfo("noif", TYPE_OBJECT, SizeofBase, 0, FALSE, {}, OBJECT_NEW_PHASE,
             <<"nowhere">>)

\* a type that names itself as its parent, with sizes of its own
loop_info ==
    TypeInfo("loop", "loop", SizeofBase, SizeofBaseClass, FALSE, {},
             OBJECT_NEW_PHASE, <<>>)

\* two types that name each other as parent and inherit their sizes
ping_info ==
    TypeInfo("ping", "pong", 0, 0, FALSE, {}, OBJECT_NEW_PHASE, <<>>)

pong_info ==
    TypeInfo("pong", "ping", 0, 0, FALSE, {}, OBJECT_NEW_PHASE, <<>>)

\* a subtype of "base" whose class_size is that of ObjectClass, less than the
\* class_size of "base"
narrow_info ==
    TypeInfo("narrow", TYPE_BASE, 0, SizeofObjectClass, FALSE, {}, OBJECT_NEW_PHASE,
             <<>>)

\* a subtype of "narrow" that inherits both sizes
slim_info ==
    TypeInfo("slim", "narrow", 0, 0, FALSE, {}, OBJECT_NEW_PHASE, <<>>)

\* a type whose instance_size is that of one pointer, less than the Object header
tiny_info ==
    TypeInfo("tiny", TYPE_OBJECT, SizeofMethod, 0, FALSE, {}, OBJECT_NEW_PHASE, <<>>)

\* a subtype of "tiny" that inherits both sizes
mini_info ==
    TypeInfo("mini", "tiny", 0, 0, FALSE, {}, OBJECT_NEW_PHASE, <<>>)

\* a type whose TypeInfo names "ifoo" MAX_INTERFACES times: the array of the
\* descriptor is full
full_info ==
    TypeInfo("full", TYPE_OBJECT, SizeofBase, 0, FALSE, {}, OBJECT_NEW_PHASE,
             [i \in 1..MAX_INTERFACES |-> "ifoo"])

\* a type whose TypeInfo names "ifoo" once more than the array has elements
wide_info ==
    TypeInfo("wide", TYPE_OBJECT, SizeofBase, 0, FALSE, {}, OBJECT_NEW_PHASE,
             [i \in 1..(MAX_INTERFACES + 1) |-> "ifoo"])

\* The hook functions behind the TypeInfos.  A class_init stores its own
\* implementation in the method pointers it sets (base.c: base->say = say), a
\* class_base_init resets method pointers of the descendant's class to NULL; the
\* pointers are numbered from 1, the first one following the ObjectClass header.
ClassInitWrites(name) ==
    CASE name \in {TYPE_BASE, "derived", "eager"} -> {1}
      [] name = "leaf" -> {2}
      [] OTHER -> {}

ClassBaseInitWrites(name) ==
    CASE name = "leaf" -> {2}
      [] OTHER -> {}

\* the type name a class_init passes to object_class_by_name before it sets its
\* method pointers, or NoName
ClassInitLooksUp(name) == IF name = "eager" THEN "kid" ELSE NoName

\* a NULL method pointer
NoMethod == ""

\* names callers pass to the by-name functions; "ghost" is never registered
CoreNames ==
    {TYPE_OBJECT, TYPE_INTERFACE, TYPE_BASE, "derived", "x", "ifoo", "abs", "ghost"}

-----------------------------------------------------------------------------
(* Program state records.                                                  *)

State ==
    [type_table |-> type_table, types |-> types, classes |-> classes,
     objects |-> objects, enumerating_types |-> enumerating_types,
     aborted |-> aborted, class_init_runs |-> class_init_runs,
     trace |-> <<>>]

Running(st) == st.aborted = ""

\* g_assert failure / abort(): the process ends with a diagnostic
Fatal(st, why) == IF Running(st) THEN [st EXCEPT !.aborted = why] ELSE st

Ret(st, v) == [st |-> st, ret |-> v]

\* a user hook was called: hook `h` of type `owner` on the class or object of `on`
Hook(st, h, owner, on) ==
    [st EXCEPT !.trace = Append(@, [hook |-> h, type |-> owner, on |-> on])]


-----------------------------------------------------------------------------
(* The registry.                                                           *)

type_table_lookup(st, name) ==
    IF name \in DOMAIN st.type_table THEN st.type_table[name] ELSE NoType

\* g_hash_table_insert replaces the value of a key that is already present
type_table_add(st, ti) ==
    IF ~Running(st) THEN st
    ELSE IF st.enumerating_types
    THEN Fatal(st, "assertion failed: ( !enumerating_types )")
    ELSE [st EXCEPT !.type_table = Alloc(@, st.types[ti].name, ti)]

\* the TypeImpl structure type_new fills from the TypeInfo
NewTypeImpl(info) ==
    [name |-> info.name, parent |-> info.parent,
     class_size |-> info.class_size, instance_size |-> info.instance_size,
     class_init |-> info.class_init, class_base_init |-> info.class_base_init,
     instance_init |-> info.instance_init,
     instance_finalize |-> info.instance_finalize,
     abstract |-> info.abstract,
     parent_type |-> NoType, class |-> NoClass,
     interfaces |-> info.interfaces]

\* type_new without its check for a name that is already registered
type_new_no_lookup(st, info) ==
    IF ~Running(st) THEN Ret(st, NoType)
    ELSE IF info.name = NoName
    THEN Ret(Fatal(st, "assertion failed: ( info->name != NULL )"), NoType)
    ELSE Ret([st EXCEPT
                !.types = Alloc(@, FreshPtr(st.types, info.name), NewTypeImpl(info)),
                !.class_init_runs = Alloc(@, FreshPtr(st.types, info.name), 0)],
             FreshPtr(st.types, info.name))

\* a zeroed TypeImpl filled from the TypeInfo; returns the new descriptor
type_new(st, info) ==
    IF ~Running(st) THEN Ret(st, NoType)
    ELSE IF info.name = NoName
    THEN Ret(Fatal(st, "assertion failed: ( info->name != NULL )"), NoType)
    ELSE IF type_table_lookup(st, info.name) # NoType
    THEN Ret(Fatal(st, "Registering type which already exists"), NoType)
    ELSE Ret([st EXCEPT
                !.types = Alloc(@, FreshPtr(st.types, info.name), NewTypeImpl(info)),
                !.class_init_runs = Alloc(@, FreshPtr(st.types, info.name), 0)],
             FreshPtr(st.types, info.name))

type_get_by_name(st, name) ==
    IF name = NoName THEN NoType ELSE type_table_lookup(st, name)

\* GET_CLASS(name): the class of a registered type whose class is initialised;
\* anything else is fatal
get_class_by_name(st, typename) ==
    IF ~Running(st) THEN Ret(st, NoClass)
    ELSE IF typename = NoName
    THEN Ret(Fatal(st, "assertion failed: ( typename != NULL )"), NoClass)
    ELSE IF type_get_by_name(st, typename) = NoType
    THEN Ret(Fatal(st, "assertion failed: ( ti != NULL )"), NoClass)
    ELSE IF st.types[type_get_by_name(st, typename)].class = NoClass
    THEN Ret(Fatal(st, "type is uninitialized"), NoClass)
    ELSE Ret(st, st.types[type_get_by_name(st, typename)].class)

\* resolves and caches parent_type; a parent name that is not registered is fatal
type_get_parent(st, type) ==
    IF ~Running(st) THEN Ret(st, NoType)
    ELSE IF st.types[type].parent_type = NoType /\ st.types[type].parent # NoName
    THEN LET p == type_get_by_name(st, st.types[type].parent)
         IN  IF p = NoType
             THEN Ret(Fatal(st, "assertion failed: ( type->parent_type != NULL )"),
                      NoType)
             ELSE Ret([st EXCEPT !.types[type].parent_type = p], p)
    ELSE Ret(st, st.types[type].parent_type)

type_has_parent(st, type) == st.types[type].parent # NoName

\* A walk of more steps than there are descriptors is on a parent cycle: the C
\* recursion (or loop) never returns.
Fuel(st) == Cardinality(DOMAIN st.types) + 1

Diverge(st) == Fatal(st, "unbounded recursion on a parent cycle")

RECURSIVE type_class_get_size(_, _, _)
type_class_get_size(st, ti, fuel) ==
    IF ~Running(st) THEN Ret(st, 0)
    ELSE IF st.types[ti].class_size # 0 THEN Ret(st, st.types[ti].class_size)
    ELSE IF type_has_parent(st, ti)
    THEN IF fuel = 0 THEN Ret(Diverge(st), 0)
         ELSE LET p == type_get_parent(st, ti)
              IN  type_class_get_size(p.st, p.ret, fuel - 1)
    ELSE Ret(st, SizeofObjectClass)

RECURSIVE type_object_get_size(_, _, _)
type_object_get_size(st, ti, fuel) ==
    IF ~Running(st) THEN Ret(st, 0)
    ELSE IF st.types[ti].instance_size # 0
    THEN Ret(st, st.types[ti].instance_size)
    ELSE IF type_has_parent(st, ti)
    THEN IF fuel = 0 THEN Ret(Diverge(st), 0)
         ELSE LET p == type_get_parent(st, ti)
              IN  type_object_get_size(p.st, p.ret, fuel - 1)
    ELSE Ret(st, 0)

\* is target_type equal to type or on its parent chain
RECURSIVE type_is_ancestor(_, _, _, _)
type_is_ancestor(st, type, target_type, fuel) ==
    IF ~Running(st) THEN Ret(st, FALSE)
    ELSE IF target_type = NoType
    THEN Ret(Fatal(st, "assertion failed: ( target_type )"), FALSE)
    ELSE IF type = NoType THEN Ret(st, FALSE)
    ELSE IF type = target_type THEN Ret(st, TRUE)
    ELSE IF fuel = 0 THEN Ret(Diverge(st), FALSE)
    ELSE LET p == type_get_parent(st, type)
         IN  type_is_ancestor(p.st, p.ret, target_type, fuel - 1)

\* the two names are asserted to be non-NULL, not to be registered: two names
\* that are both unknown compare equal as NULL descriptors
is_compatible_type(st, typename, target_typename) ==
    IF ~Running(st) THEN Ret(st, FALSE)
    ELSE IF typename = NoName
    THEN Ret(Fatal(st, "assertion failed: ( typename != NULL )"), FALSE)
    ELSE IF target_typename = NoName
    THEN Ret(Fatal(st, "assertion failed: ( target_typename != NULL )"), FALSE)
    ELSE IF type_get_by_name(st, typename) = type_get_by_name(st, target_typename)
    THEN Ret(st, TRUE)
    ELSE type_is_ancestor(st, type_get_by_name(st, typename),
                          type_get_by_name(st, target_typename), Fuel(st))

\* object_type_get_instance_size reading the field of the descriptor
object_type_get_instance_size_field(st, typename) ==
    IF ~Running(st) THEN Ret(st, 0)
    ELSE IF type_get_by_name(st, typename) = NoType
    THEN Ret(Fatal(st, "assertion failed: ( type != NULL )"), 0)
    ELSE Ret(st, st.types[type_get_by_name(st, typename)].instance_size)

object_type_get_instance_size(st, typename) ==
    IF ~Running(st) THEN Ret(st, 0)
    ELSE IF type_get_by_name(st, typename) = NoType
    THEN Ret(Fatal(st, "assertion failed: ( type != NULL )"), 0)
    ELSE type_object_get_size(st, type_get_by_name(st, typename), Fuel(st))

-----------------------------------------------------------------------------
(* Class initialisation.  type_initialize is written as the composition of *)
(* its steps, each an operator on the program state.                       *)

\* the number of method pointers in a class structure of class_size bytes.  In a
\* class of the "interface" family the first two are the fields concrete_class and
\* interface_type, which the model keeps under their names.
Methods(class_size) ==
    IF class_size > SizeofObjectClass
    THEN (class_size - SizeofObjectClass) \div SizeofMethod
    ELSE 0

\* g_malloc0(class_size): every field zero
ZeroClass(class_size) ==
    [type |-> NoType, interfaces |-> <<>>, properties |-> FALSE,
     concrete_class |-> NoClass, interface_type |-> NoType,
     methods |-> [w \in 1..Methods(class_size) |-> NoMethod]]

\* the method pointers of a class after a hook stored `value` in those of `writes`
WriteMethods(st, class, writes, value) ==
    [st EXCEPT !.classes[class].methods =
                  [w \in DOMAIN @ |-> IF w \in writes THEN value ELSE @[w]]]

\* memcpy(ti->class, parent->class, parent->class_size): the ObjectClass header
\* always, the InterfaceClass fields when the parent's class holds them
CopyClass(dst, src, parent_size) ==
    [dst EXCEPT !.type = src.type,
                !.interfaces = src.interfaces,
                !.properties = src.properties,
                !.methods = [w \in DOMAIN @ |->
                                IF w <= Methods(parent_size)
                                THEN src.methods[w] ELSE @[w]],
                !.concrete_class =
                    IF parent_size >= SizeofInterfaceClass
                    THEN src.concrete_class ELSE @,
                !.interface_type =
                    IF parent_size >= SizeofInterfaceClass
                    THEN src.interface_type ELSE @]

RECURSIVE type_initialize(_, _)
RECURSIVE object_class_by_name(_, _)

\* the TypeInfo of the hidden type "<ti>::<interface>"
InterfaceImplInfo(st, ti, interface_type, parent_type) ==
    TypeInfo(st.types[ti].name \o "::" \o st.types[interface_type].name,
             st.types[parent_type].name, 0, 0, TRUE, {}, OBJECT_NEW_PHASE, <<>>)

\* new_iface->concrete_class, new_iface->interface_type, g_slist_append
type_initialize_interface_link(st, ti, interface_type, iface_impl) ==
    IF ~Running(st) THEN st
    ELSE [st EXCEPT
            !.classes[st.types[iface_impl].class].concrete_class =
                st.types[ti].class,
            !.classes[st.types[iface_impl].class].interface_type =
                interface_type,
            !.classes[st.types[ti].class].interfaces =
                Append(@, st.types[iface_impl].class)]

\* iface_impl = n.ret was made by type_new: set its parent_type, initialise it
type_initialize_interface_impl(n, ti, interface_type, parent_type) ==
    IF ~Running(n.st) THEN n.st
    ELSE type_initialize_interface_link(
             type_initialize([n.st EXCEPT !.types[n.ret].parent_type = parent_type],
                             n.ret),
             ti, interface_type, n.ret)

\* type_initialize_interface with type_register_internal in the place of type_new
type_initialize_interface_registered(st, ti, interface_type, parent_type) ==
    IF ~Running(st) THEN st
    ELSE IF parent_type = NoType \/ interface_type = NoType
    THEN Fatal(st, "NULL TypeImpl dereferenced")
    ELSE LET n == type_new(st, InterfaceImplInfo(st, ti, interface_type,
                                                 parent_type))
         IN  type_initialize_interface_impl(
                 Ret(type_table_add(n.st, n.ret), n.ret),
                 ti, interface_type, parent_type)

type_initialize_interface(st, ti, interface_type, parent_type) ==
    IF ~Running(st) THEN st
    ELSE IF parent_type = NoType \/ interface_type = NoType
    THEN Fatal(st, "NULL TypeImpl dereferenced")
    ELSE type_initialize_interface_impl(
             type_new(st, InterfaceImplInfo(st, ti, interface_type, parent_type)),
             ti, interface_type, parent_type)

\* for (e = parent->class->interfaces; e; e = e->next), from entry i on
RECURSIVE type_initialize_parent_interfaces(_, _, _, _)
type_initialize_parent_interfaces(st, ti, parent, i) ==
    IF ~Running(st) THEN st
    ELSE IF i > Len(st.classes[st.types[parent].class].interfaces) THEN st
    ELSE type_initialize_parent_interfaces(
             type_initialize_interface(
                 st, ti,
                 st.classes[st.classes[st.types[parent].class].interfaces[i]]
                    .interface_type,
                 st.classes[st.classes[st.types[parent].class].interfaces[i]].type),
             ti, parent, i + 1)

\* the inner loop over ti->class->interfaces: is some entry's type a subtype of t
RECURSIVE type_interface_covered(_, _, _, _)
type_interface_covered(st, ti, t, j) ==
    IF ~Running(st) THEN Ret(st, FALSE)
    ELSE IF j > Len(st.classes[st.types[ti].class].interfaces) THEN Ret(st, FALSE)
    ELSE LET a == type_is_ancestor(
                      st, st.classes[st.classes[st.types[ti].class].interfaces[j]].type,
                      t, Fuel(st))
         IN  IF ~Running(a.st) \/ a.ret THEN a
             ELSE type_interface_covered(a.st, ti, t, j + 1)

\* the body of the loop for one declared interface t, c the result of the inner loop
type_initialize_own_interface(c, ti, t) ==
    IF c.ret THEN c.st ELSE type_initialize_interface(c.st, ti, t, t)

\* for (i = 0; i < ti->num_interfaces; i++), from declared interface i on
RECURSIVE type_initialize_own_interfaces(_, _, _)
type_initialize_own_interfaces(st, ti, i) ==
    IF ~Running(st) THEN st
    ELSE IF i > Len(st.types[ti].interfaces) THEN st
    ELSE type_initialize_own_interfaces(
             type_initialize_own_interface(
                 type_interface_covered(
                     st, ti, type_get_by_name(st, st.types[ti].interfaces[i]), 1),
                 ti, type_get_by_name(st, st.types[ti].interfaces[i])),
             ti, i + 1)

RECURSIVE type_initialize_base_init(_, _, _, _)

\* the same loop with the hook called on parent->class, not on ti->class
type_initialize_base_init_on_parent(st, ti, parent, fuel) ==
    IF ~Running(st) \/ parent = NoType THEN st
    ELSE IF fuel = 0 THEN Diverge(st)
    ELSE LET p == type_get_parent(
                      IF st.types[parent].class_base_init
                      THEN WriteMethods(
                               Hook(st, "class_base_init", st.types[parent].name,
                                    st.types[ti].name),
                               st.types[parent].class,
                               ClassBaseInitWrites(st.types[parent].name), NoMethod)
                      ELSE st,
                      parent)
         IN  type_initialize_base_init(p.st, ti, p.ret, fuel - 1)

\* while (parent) { class_base_init; parent = type_get_parent(parent); }
type_initialize_base_init(st, ti, parent, fuel) ==
    IF ~Running(st) \/ parent = NoType THEN st
    ELSE IF fuel = 0 THEN Diverge(st)
    ELSE LET p == type_get_parent(
                      IF st.types[parent].class_base_init
                      THEN WriteMethods(
                               Hook(st, "class_base_init", st.types[parent].name,
                                    st.types[ti].name),
                               st.types[ti].class,
                               ClassBaseInitWrites(st.types[parent].name), NoMethod)
                      ELSE st,
                      parent)
         IN  type_initialize_base_init(p.st, ti, p.ret, fuel - 1)

\* ti->class_size = type_class_get_size(ti), c the result of the call
type_initialize_class_size(c, ti) ==
    IF ~Running(c.st) THEN c.st
    ELSE [c.st EXCEPT !.types[ti].class_size = c.ret]

\* the same step without "if (ti->instance_size == 0) ti->abstract = true"
type_initialize_instance_size_only(c, ti) ==
    IF ~Running(c.st) THEN c.st
    ELSE [c.st EXCEPT !.types[ti].instance_size = c.ret,
                      !.types[ti].class = FreshPtr(c.st.classes, ti),
                      !.classes = Alloc(@, FreshPtr(c.st.classes, ti),
                                        ZeroClass(c.st.types[ti].class_size))]

\* the same step with a type made abstract also when its parent is abstract
type_initialize_instance_size_inherit(c, ti) ==
    IF ~Running(c.st) THEN c.st
    ELSE [c.st EXCEPT !.types[ti].instance_size = c.ret,
                      !.types[ti].abstract =
                          IF c.ret = 0 THEN TRUE
                          ELSE IF type_get_by_name(c.st, c.st.types[ti].parent)
                                     # NoType
                          THEN @ \/ c.st.types[type_get_by_name(
                                                   c.st, c.st.types[ti].parent)]
                                       .abstract
                          ELSE @,
                      !.types[ti].class = FreshPtr(c.st.classes, ti),
                      !.classes = Alloc(@, FreshPtr(c.st.classes, ti),
                                        ZeroClass(c.st.types[ti].class_size))]

\* ti->instance_size = type_object_get_size(ti), c the result of the call; a zero
\* size makes the type abstract; ti->class = g_malloc0(ti->class_size)
type_initialize_instance_size(c, ti) ==
    IF ~Running(c.st) THEN c.st
    ELSE [c.st EXCEPT !.types[ti].instance_size = c.ret,
                      !.types[ti].abstract = IF c.ret = 0 THEN TRUE ELSE @,
                      !.types[ti].class = FreshPtr(c.st.classes, ti),
                      !.classes = Alloc(@, FreshPtr(c.st.classes, ti),
                                        ZeroClass(c.st.types[ti].class_size))]

type_initialize_alloc(st, ti) ==
    type_initialize_instance_size(
        type_object_get_size(
            type_initialize_class_size(type_class_get_size(st, ti, Fuel(st)), ti),
            ti, Fuel(st)),
        ti)

\* the same without g_assert_cmpint(parent->class_size, <=, ti->class_size)
type_initialize_copy_unchecked(st, ti, parent) ==
    IF ~Running(st) THEN st
    ELSE [Hook(st, "memcpy", st.types[parent].name, st.types[ti].name) EXCEPT
            !.classes[st.types[ti].class] =
                [CopyClass(@, st.classes[st.types[parent].class],
                           st.types[parent].class_size)
                    EXCEPT !.interfaces = <<>>, !.properties = TRUE]]

\* the parent's class is initialised: check the sizes, copy it, reset the lists
type_initialize_copy(st, ti, parent) ==
    IF ~Running(st) THEN st
    ELSE IF ~(st.types[parent].class_size <= st.types[ti].class_size)
    THEN Fatal(st, "assertion failed (parent->class_size <= ti->class_size)")
    ELSE [Hook(st, "memcpy", st.types[parent].name, st.types[ti].name) EXCEPT
            !.classes[st.types[ti].class] =
                [CopyClass(@, st.classes[st.types[parent].class],
                           st.types[parent].class_size)
                    EXCEPT !.interfaces = <<>>, !.properties = TRUE]]

\* if (parent) { ... } else { ... }, p the result of type_get_parent(ti)
type_initialize_parent(p, ti) ==
    IF ~Running(p.st) THEN p.st
    ELSE IF p.ret # NoType
    THEN type_initialize_own_interfaces(
             type_initialize_parent_interfaces(
                 type_initialize_copy(type_initialize(p.st, p.ret), ti, p.ret),
                 ti, p.ret, 1),
             ti, 1)
    ELSE [p.st EXCEPT !.classes[p.st.types[ti].class].properties = TRUE]

\* the class_init function has the class r.ret of the type `name` in hand
class_init_observed(r, ti, name) ==
    IF ~Running(r.st) \/ r.ret = NoClass THEN r.st
    ELSE Hook(r.st, "observe", name, r.st.types[ti].name)

\* the call of object_class_by_name a class_init function starts with
class_init_lookup(st, ti) ==
    IF ClassInitLooksUp(st.types[ti].name) = NoName THEN st
    ELSE class_init_observed(
             object_class_by_name(st, ClassInitLooksUp(st.types[ti].name)),
             ti, ClassInitLooksUp(st.types[ti].name))

\* the class_init function sets its method pointers and returns
class_init_return(st, ti) ==
    IF ~Running(st) THEN st
    ELSE Hook(WriteMethods(st, st.types[ti].class,
                           ClassInitWrites(st.types[ti].name), st.types[ti].name),
              "class_init_return", st.types[ti].name, st.types[ti].name)

\* if (ti->class_init) ti->class_init(ti->class, ti->class_data)
type_initialize_class_init(st, ti) ==
    IF ~Running(st) THEN st
    ELSE IF st.types[ti].class_init
    THEN class_init_return(
             class_init_lookup(
                 [Hook(st, "class_init", st.types[ti].name, st.types[ti].name)
                     EXCEPT !.class_init_runs[ti] = @ + 1],
                 ti),
             ti)
    ELSE st

\* ti->class->type = ti, then the class_base_init hooks from the parent upwards
type_initialize_hooks(st, ti) ==
    IF ~Running(st) THEN st
    ELSE type_initialize_class_init(
             type_initialize_base_init(
                 [st EXCEPT !.classes[st.types[ti].class].type = ti],
                 ti, st.types[ti].parent_type, Fuel(st)),
             ti)

TypeInitializeBody(st, ti) ==
    type_initialize_hooks(
        type_initialize_parent(
            type_get_parent(type_initialize_alloc(st, ti), ti), ti),
        ti)

\* type_initialize without "if (ti->class) return"
type_initialize_again(st, ti) ==
    IF ~Running(st) THEN st
    ELSE TypeInitializeBody(st, ti)

type_initialize(st, ti) ==
    IF ~Running(st) THEN st
    ELSE IF st.types[ti].class # NoClass THEN st
    ELSE TypeInitializeBody(st, ti)

\* type_table_add(ti) without the initialisation in TYPE_REGISTER_PHASE
type_register_internal_add_only(n, info) ==
    Ret(type_table_add(n.st, n.ret), n.ret)

\* type_table_add(ti) and the initialisation in TYPE_REGISTER_PHASE, n the result
\* of type_new
type_register_internal_add(n, info) ==
    IF info.type_init_phase = TYPE_REGISTER_PHASE
    THEN Ret(type_initialize(type_table_add(n.st, n.ret), n.ret), n.ret)
    ELSE Ret(type_table_add(n.st, n.ret), n.ret)

type_register_internal(st, info) ==
    type_register_internal_add(type_new(st, info), info)

type_register(st, info) ==
    IF ~Running(st) THEN Ret(st, NoType)
    ELSE IF info.parent = NoName
    THEN Ret(Fatal(st, "assertion failed: ( info->parent )"), NoType)
    ELSE type_register_internal(st, info)

\* register_types(): "interface" first, then "object"
object_type_register(st) ==
    type_register_internal(type_register_internal(st, interface_info).st,
                           object_info).st

-----------------------------------------------------------------------------
(* Objects.                                                                *)
(* An instance storage is a record of the Object header fields plus its    *)
(* bookkeeping: size and mem (how the caller obtained it), state (raw      *)
(* until initialised, live, finalized, freed), the counts of finalize      *)
(* chain runs and of deallocator calls it has seen, and a summary of the   *)
(* ref/unref calls made on it (calls, held, bal).                          *)

RawObject(size, mem) ==
    [class |-> NoClass, free |-> TRUE, properties |-> TRUE, ref |-> U32One,
     size |-> size, mem |-> mem, state |-> "raw",
     finalized |-> 0, freed |-> 0, calls |-> 0, held |-> 0, bal |-> "balanced"]

\* the name of the type of an initialised object
TypeNameOf(st, obj) == st.types[st.classes[st.objects[obj].class].type].name

\* g_malloc(n_bytes): NULL for a request of 0 bytes
g_malloc(st, n_bytes) ==
    IF ~Running(st) \/ n_bytes = 0 THEN Ret(st, NULL)
    ELSE Ret([st EXCEPT !.objects = Append(@, RawObject(n_bytes, "heap"))],
             Len(st.objects) + 1)

\* g_free as Object.free
g_free(st, obj) ==
    [st EXCEPT !.trace = Append(@, [hook |-> "free", type |-> NoName, on |-> NoName]),
               !.objects[obj].state = "freed",
               !.objects[obj].freed = @ + 1]

\* object_ref with obj->ref++ in the place of obj->ref--
object_ref_increment(st, obj) ==
    IF ~Running(st) \/ obj = NULL THEN st
    ELSE [st EXCEPT !.objects[obj].ref =
                       IF @.lo < HalfMod - 1 THEN U32(@.hi, @.lo + 1)
                       ELSE IF @.hi < HalfMod - 1 THEN U32(@.hi + 1, 0)
                       ELSE U32Zero]

object_ref(st, obj) ==
    IF ~Running(st) \/ obj = NULL THEN st
    ELSE [st EXCEPT !.objects[obj].ref = U32Dec(@)]

\* if (ti->instance_init) ti->instance_init(obj)
object_init_hook(st, obj, ti) ==
    IF ~Running(st) THEN st
    ELSE IF st.types[ti].instance_init
    THEN Hook(st, "instance_init", st.types[ti].name, TypeNameOf(st, obj))
    ELSE st

\* object_init_with_type with the type's own hook run before the parent's
RECURSIVE object_init_with_type_own_first(_, _, _, _)
object_init_with_type_own_first(st, obj, ti, fuel) ==
    IF ~Running(st) THEN st
    ELSE IF fuel = 0 THEN Diverge(st)
    ELSE IF type_has_parent(st, ti)
    THEN LET p == type_get_parent(object_init_hook(st, obj, ti), ti)
         IN  object_init_with_type_own_first(p.st, obj, p.ret, fuel - 1)
    ELSE object_init_hook(st, obj, ti)

RECURSIVE object_init_with_type(_, _, _, _)
object_init_with_type(st, obj, ti, fuel) ==
    IF ~Running(st) THEN st
    ELSE IF fuel = 0 THEN Diverge(st)
    ELSE IF type_has_parent(st, ti)
    THEN LET p == type_get_parent(st, ti)
         IN  object_init_hook(object_init_with_type(p.st, obj, p.ret, fuel - 1),
                              obj, ti)
    ELSE object_init_hook(st, obj, ti)

\* memset, obj->class, object_ref(obj), obj->properties
object_initialize_fields(st, data, type) ==
    [object_ref([st EXCEPT
                   !.objects[data] =
                      [@ EXCEPT !.class = st.types[type].class,
                                !.free = FALSE, !.properties = FALSE,
                                !.ref = U32Zero, !.state = "live"]],
                data)
        EXCEPT !.objects[data].properties = TRUE]

\* the same without g_assert(type->abstract == false)
object_initialize_abstract(st, data, size, type) ==
    IF ~Running(st) THEN st
    ELSE IF ~(st.types[type].instance_size >= SizeofObject)
    THEN Fatal(st, "assertion failed (type->instance_size >= sizeof(Object))")
    ELSE IF ~(size >= st.types[type].instance_size)
    THEN Fatal(st, "assertion failed (size >= type->instance_size)")
    ELSE object_init_with_type(object_initialize_fields(st, data, type), data,
                               type, Fuel(st))

\* object_initialize_with_type after its call of type_initialize
object_initialize_checked(st, data, size, type) ==
    IF ~Running(st) THEN st
    ELSE IF ~(st.types[type].instance_size >= SizeofObject)
    THEN Fatal(st, "assertion failed (type->instance_size >= sizeof(Object))")
    ELSE IF ~(st.types[type].abstract = FALSE)
    THEN Fatal(st, "assertion failed: ( type->abstract == false )")
    ELSE IF ~(size >= st.types[type].instance_size)
    THEN Fatal(st, "assertion failed (size >= type->instance_size)")
    ELSE object_init_with_type(object_initialize_fields(st, data, type), data,
                               type, Fuel(st))

object_initialize_with_type(st, data, size, type) ==
    IF ~Running(st) THEN st
    ELSE IF type = NoType THEN Fatal(st, "assertion failed: ( type != NULL )")
    ELSE object_initialize_checked(type_initialize(st, type), data, size, type)

object_initialize(st, data, size, typename) ==
    object_initialize_with_type(st, data, size, type_get_by_name(st, typename))

\* object_deinit with the parent's finalizer run before the type's own
RECURSIVE object_deinit_parent_first(_, _, _, _)
object_deinit_parent_first(st, obj, type, fuel) ==
    IF ~Running(st) THEN st
    ELSE IF fuel = 0 THEN Diverge(st)
    ELSE LET p == type_get_parent(st, type)
             s1 == IF type_has_parent(st, type)
                   THEN object_deinit_parent_first(p.st, obj, p.ret, fuel - 1)
                   ELSE st
         IN  IF Running(s1) /\ s1.types[type].instance_finalize
             THEN Hook(s1, "instance_finalize", s1.types[type].name,
                       TypeNameOf(s1, obj))
             ELSE s1

RECURSIVE object_deinit(_, _, _, _)
object_deinit(st, obj, type, fuel) ==
    IF ~Running(st) THEN st
    ELSE IF fuel = 0 THEN Diverge(st)
    ELSE LET p == type_get_parent(
                      IF st.types[type].instance_finalize
                      THEN Hook(st, "instance_finalize", st.types[type].name,
                                TypeNameOf(st, obj))
                      ELSE st,
                      type)
         IN  IF type_has_parent(st, type)
             THEN object_deinit(p.st, obj, p.ret, fuel - 1)
             ELSE p.st

\* object_finalize after object_deinit: the assertion and the deallocator
object_finalize_free(st, data) ==
    IF ~Running(st) THEN st
    ELSE IF ~(st.objects[data].ref = U32Zero)
    THEN Fatal([st EXCEPT !.objects[data].state = "finalized",
                          !.objects[data].finalized = @ + 1],
               "assertion failed (obj->ref == 0)")
    ELSE IF st.objects[data].free
    THEN g_free([st EXCEPT !.objects[data].state = "finalized",
                           !.objects[data].finalized = @ + 1],
                data)
    ELSE [st EXCEPT !.objects[data].state = "finalized",
                    !.objects[data].finalized = @ + 1]

object_finalize(st, data) ==
    IF ~Running(st) THEN st
    ELSE object_finalize_free(
             object_deinit(st, data, st.classes[st.objects[data].class].type,
                           Fuel(st)),
             data)

\* obj->free = g_free, return obj; m the storage from g_malloc
object_new_set_free(st, m) ==
    IF ~Running(st) THEN Ret(st, NULL)
    ELSE Ret([st EXCEPT !.objects[m].free = TRUE], m)

\* obj = g_malloc(type->instance_size) and the in-place initialisation, m the
\* result of g_malloc
object_new_initialize(m, type) ==
    object_new_set_free(
        object_initialize_with_type(m.st, m.ret, m.st.types[type].instance_size,
                                    type),
        m.ret)

\* object_new_with_type after its call of type_initialize
object_new_alloc(st, type) ==
    IF ~Running(st) THEN Ret(st, NULL)
    ELSE object_new_initialize(g_malloc(st, st.types[type].instance_size), type)

object_new_with_type(st, type) ==
    IF ~Running(st) THEN Ret(st, NULL)
    ELSE IF type = NoType
    THEN Ret(Fatal(st, "assertion failed: ( type != NULL )"), NULL)
    ELSE object_new_alloc(type_initialize(st, type), type)

object_new(st, typename) ==
    object_new_with_type(st, type_get_by_name(st, typename))

\* object_unref without its assertion on the count
object_unref_no_assert(st, obj) ==
    IF ~Running(st) \/ obj = NULL THEN st
    ELSE IF st.objects[obj].ref = U32One
    THEN object_finalize([st EXCEPT !.objects[obj].ref = U32Dec(@)], obj)
    ELSE [st EXCEPT !.objects[obj].ref = U32Dec(@)]

\* object_unref with g_assert(obj) in the place of "if (!obj) return"
object_unref_assert_obj(st, obj) ==
    IF ~Running(st) THEN st
    ELSE IF obj = NULL THEN Fatal(st, "assertion failed: ( obj )")
    ELSE IF ~U32Less(U32Zero, st.objects[obj].ref)
    THEN Fatal(st, "assertion failed (obj->ref > 0)")
    ELSE IF st.objects[obj].ref = U32One
    THEN object_finalize([st EXCEPT !.objects[obj].ref = U32Dec(@)], obj)
    ELSE [st EXCEPT !.objects[obj].ref = U32Dec(@)]

object_unref(st, obj) ==
    IF ~Running(st) \/ obj = NULL THEN st
    ELSE IF ~U32Less(U32Zero, st.objects[obj].ref)
    THEN Fatal(st, "assertion failed (obj->ref > 0)")
    ELSE IF st.objects[obj].ref = U32One
    THEN object_finalize([st EXCEPT !.objects[obj].ref = U32Dec(@)], obj)
    ELSE [st EXCEPT !.objects[obj].ref = U32Dec(@)]

\* return type->class
ClassOf(st, type) ==
    Ret(st, IF Running(st) THEN st.types[type].class ELSE NoClass)

\* object_class_by_name without its call of type_initialize
object_class_by_name_no_init(st, typename) ==
    IF ~Running(st) \/ type_get_by_name(st, typename) = NoType
    THEN Ret(st, NoClass)
    ELSE ClassOf(st, type_get_by_name(st, typename))

object_class_by_name(st, typename) ==
    IF ~Running(st) \/ type_get_by_name(st, typename) = NoType
    THEN Ret(st, NoClass)
    ELSE ClassOf(type_initialize(st, type_get_by_name(st, typename)),
                 type_get_by_name(st, typename))

\* object_class_get_parent after type_get_parent, whose result is p
object_class_get_parent_class(p) ==
    IF ~Running(p.st) \/ p.ret = NoType THEN Ret(p.st, NoClass)
    ELSE ClassOf(type_initialize(p.st, p.ret), p.ret)

object_class_get_parent(st, class) ==
    object_class_get_parent_class(type_get_parent(st, st.classes[class].type))

-----------------------------------------------------------------------------
(* Casts.  The callers pass type names of their own (string literals), so  *)
(* the pointer comparison type->name == typename of the fast path is false *)
(* and the cast goes through the lookup of the name.                       *)

\* static Type type_interface: the descriptor register_types registered for
\* "interface" (no TypeInfo offered to type_register has that name)
type_interface(st) == type_table_lookup(st, TYPE_INTERFACE)

\* the loop over class->interfaces that returns the last match although more than
\* one entry matched
RECURSIVE object_class_dynamic_cast_last_match(_, _, _, _, _, _)
object_class_dynamic_cast_last_match(st, class, target_type, i, found, ret) ==
    IF ~Running(st) THEN Ret(st, NoClass)
    ELSE IF i > Len(st.classes[class].interfaces) THEN Ret(st, ret)
    ELSE LET a == type_is_ancestor(
                      st, st.classes[st.classes[class].interfaces[i]].type,
                      target_type, Fuel(st))
         IN  object_class_dynamic_cast_last_match(
                 a.st, class, target_type, i + 1,
                 IF a.ret THEN found + 1 ELSE found,
                 IF a.ret THEN st.classes[class].interfaces[i] ELSE ret)

\* for (i = class->interfaces; i; i = i->next), from entry i on, and the check
\* for an ambiguous match after it
RECURSIVE object_class_dynamic_cast_interfaces(_, _, _, _, _, _)
object_class_dynamic_cast_interfaces(st, class, target_type, i, found, ret) ==
    IF ~Running(st) THEN Ret(st, NoClass)
    ELSE IF i > Len(st.classes[class].interfaces)
    THEN Ret(st, IF found > 1 THEN NoClass ELSE ret)
    ELSE LET a == type_is_ancestor(
                      st, st.classes[st.classes[class].interfaces[i]].type,
                      target_type, Fuel(st))
         IN  object_class_dynamic_cast_interfaces(
                 a.st, class, target_type, i + 1,
                 IF a.ret THEN found + 1 ELSE found,
                 IF a.ret THEN st.classes[class].interfaces[i] ELSE ret)

\* else if (type_is_ancestor(type, target_type)) ret = class; a the call's result
object_class_dynamic_cast_self(a, class) ==
    Ret(a.st, IF Running(a.st) /\ a.ret THEN class ELSE NoClass)

\* the two branches; a is the value of
\* type->class->interfaces && type_is_ancestor(target_type, type_interface)
object_class_dynamic_cast_branch(a, class, target_type) ==
    IF ~Running(a.st) THEN Ret(a.st, NoClass)
    ELSE IF a.ret
    THEN object_class_dynamic_cast_interfaces(a.st, class, target_type, 1, 0, NoClass)
    ELSE object_class_dynamic_cast_self(
             type_is_ancestor(a.st, a.st.classes[class].type, target_type,
                              Fuel(a.st)),
             class)

object_class_dynamic_cast(st, class, typename) ==
    IF ~Running(st) \/ class = NoClass THEN Ret(st, NoClass)
    ELSE IF type_get_by_name(st, typename) = NoType THEN Ret(st, NoClass)
    ELSE object_class_dynamic_cast_branch(
             IF st.classes[st.types[st.classes[class].type].class].interfaces # <<>>
             THEN type_is_ancestor(st, type_get_by_name(st, typename),
                                   type_interface(st), Fuel(st))
             ELSE Ret(st, FALSE),
             class, type_get_by_name(st, typename))

\* return obj if the cast of its class gave a class, else NULL; c the cast's result
object_dynamic_cast_result(c, obj) ==
    Ret(c.st, IF Running(c.st) /\ c.ret # NoClass THEN obj ELSE NULL)

object_dynamic_cast(st, obj, typename) ==
    IF ~Running(st) \/ obj = NULL THEN Ret(st, NULL)
    ELSE object_dynamic_cast_result(
             object_class_dynamic_cast(st, st.objects[obj].class, typename), obj)

\* if (!ret && class) abort(); c the cast's result
object_class_dynamic_cast_assert_result(c) ==
    IF Running(c.st) /\ c.ret = NoClass
    THEN Ret(Fatal(c.st, "Object is not an instance of type"), NoClass)
    ELSE c

object_class_dynamic_cast_assert(st, class, typename) ==
    IF ~Running(st) \/ class = NoClass THEN Ret(st, class)
    ELSE IF st.classes[class].interfaces = <<>> THEN Ret(st, class)
    ELSE object_class_dynamic_cast_assert_result(
             object_class_dynamic_cast(st, class, typename))

\* g_assert(obj != NULL); return obj: the type name is not looked at
object_dynamic_cast_assert(st, obj, typename) ==
    IF ~Running(st) THEN Ret(st, NULL)
    ELSE IF obj = NULL THEN Ret(Fatal(st, "assertion failed: ( obj != NULL )"), NULL)
    ELSE Ret(st, obj)

-----------------------------------------------------------------------------
(* The state machine: one action per API call.                             *)

NoCall ==
    [op |-> "none", name |-> NoName, obj |-> NULL, trace |-> <<>>, depth |-> 0,
     class |-> NoClass, ret |-> NoClass]

Init ==
    /\ type_table = <<>>
    /\ types = <<>>
    /\ classes = <<>>
    /\ objects = <<>>
    /\ enumerating_types = FALSE
    /\ enum_stack = <<>>
    /\ aborted = ""
    /\ class_init_runs = <<>>
    /\ last = NoCall

\* the caller is main-line code, or the callback of the innermost enumeration
CanCall ==
    /\ aborted = ""
    /\ IF enum_stack = <<>> THEN TRUE ELSE enum_stack[Len(enum_stack)].in_fn

\* the program state after the call, and the record of the call
Commit(st, op, name, obj) ==
    /\ type_table' = st.type_table
    /\ types' = st.types
    /\ classes' = st.classes
    /\ objects' = st.objects
    /\ enumerating_types' = st.enumerating_types
    /\ aborted' = st.aborted
    /\ class_init_runs' = st.class_init_runs
    /\ last' = [op |-> op, name |-> name, obj |-> obj, trace |-> st.trace,
                depth |-> Len(enum_stack), class |-> NoClass, ret |-> NoClass]

\* the same for a call that returns an object
CommitRet(r, op, name) == Commit(r.st, op, name, r.ret)

ObjectTypeRegister ==
    /\ CanCall
    /\ Commit(object_type_register(State), "object_type_register", NoName, NULL)
    /\ UNCHANGED enum_stack

TypeRegister(info) ==
    /\ CanCall
    /\ Commit(type_register(State, info).st, "type_register", info.name, NULL)
    /\ UNCHANGED enum_stack

\* what the stores past the end of TypeImpl.interfaces do: they land in memory
\* that nothing else uses and the descriptor reads back as written, or they
\* damage the heap and the process ends
OverrunOutcomes == {"stored", "crash"}

\* type_register with a TypeInfo that names more than MAX_INTERFACES interfaces:
\* the loop of type_new stores every name and counts it, the stores from element
\* MAX_INTERFACES on are outside the descriptor and their effect is undefined
TypeRegisterOverrun(info, outcome) ==
    /\ CanCall
    /\ Len(info.interfaces) > MAX_INTERFACES
    /\ Commit(IF outcome = "crash" /\ Running(type_register(State, info).st)
              THEN Fatal(State, "store past the end of TypeImpl.interfaces")
              ELSE type_register(State, info).st,
              "type_register", info.name, NULL)
    /\ UNCHANGED enum_stack

\* the program state after the call, the record of the call and the class returned
CommitClass(r, op, name) ==
    /\ type_table' = r.st.type_table
    /\ types' = r.st.types
    /\ classes' = r.st.classes
    /\ objects' = r.st.objects
    /\ enumerating_types' = r.st.enumerating_types
    /\ aborted' = r.st.aborted
    /\ class_init_runs' = r.st.class_init_runs
    /\ last' = [op |-> op, name |-> name, obj |-> NULL, trace |-> r.st.trace,
                depth |-> Len(enum_stack), class |-> NoClass, ret |-> r.ret]

ObjectClassByName(name) ==
    /\ CanCall
    /\ CommitClass(object_class_by_name(State, name), "object_class_by_name", name)
    /\ UNCHANGED enum_stack

GetClassByName(name) ==
    /\ CanCall
    /\ CommitClass(get_class_by_name(State, name), "get_class_by_name", name)
    /\ UNCHANGED enum_stack

\* object_type_get_instance_size(name): the size returned is recorded as the
\* result of the call
ObjectTypeGetInstanceSize(name) ==
    /\ CanCall
    /\ CommitClass(object_type_get_instance_size(State, name),
                   "object_type_get_instance_size", name)
    /\ UNCHANGED enum_stack

\* object_class_get_parent on the class of a registered, initialised type
ObjectClassGetParent(name) ==
    /\ CanCall
    /\ name \in DOMAIN type_table
    /\ types[type_table[name]].class # NoClass
    /\ Commit(object_class_get_parent(State, types[type_table[name]].class).st,
              "object_class_get_parent", name, NULL)
    /\ UNCHANGED enum_stack

ObjectNew(name) ==
    /\ CanCall
    /\ Len(objects) < MaxObjects
    /\ CommitRet(object_new(State, name), "object_new", name)
    /\ UNCHANGED enum_stack

\* object_initialize on a fresh caller-owned buffer of `size` bytes
ObjectInitialize(size, name) ==
    /\ CanCall
    /\ Len(objects) < MaxObjects
    /\ Commit(object_initialize(
                  [State EXCEPT !.objects = Append(@, RawObject(size, "buf"))],
                  Len(objects) + 1, size, name),
              "object_initialize", name, Len(objects) + 1)
    /\ UNCHANGED enum_stack

\* the same for a cast of a class: the class passed, the class returned
CommitCast(r, op, name, obj, class) ==
    /\ type_table' = r.st.type_table
    /\ types' = r.st.types
    /\ classes' = r.st.classes
    /\ objects' = r.st.objects
    /\ enumerating_types' = r.st.enumerating_types
    /\ aborted' = r.st.aborted
    /\ class_init_runs' = r.st.class_init_runs
    /\ last' = [op |-> op, name |-> name, obj |-> obj, trace |-> r.st.trace,
                depth |-> Len(enum_stack), class |-> class, ret |-> r.ret]

\* the class pointers a caller can hold: NULL, the class of an initialised type,
\* or an entry of the interface list of such a class
ObjectClassDynamicCast(class, name) ==
    /\ CanCall
    /\ class \in DOMAIN classes \cup {NoClass}
    /\ CommitCast(object_class_dynamic_cast(State, class, name),
                  "object_class_dynamic_cast", name, NULL, class)
    /\ UNCHANGED enum_stack

ObjectClassDynamicCastAssert(class, name) ==
    /\ CanCall
    /\ class \in DOMAIN classes \cup {NoClass}
    /\ CommitCast(object_class_dynamic_cast_assert(State, class, name),
                  "object_class_dynamic_cast_assert", name, NULL, class)
    /\ UNCHANGED enum_stack

\* the same for a cast of an object: the object returned, the class of the
\* object passed
CommitObjectCast(r, name, class) ==
    CommitCast(Ret(r.st, NoClass), "object_dynamic_cast", name, r.ret, class)

\* object_dynamic_cast on NULL or on a live object
ObjectDynamicCast(obj, name) ==
    /\ CanCall
    /\ obj \in {NULL} \cup {o \in 1..Len(objects) : objects[o].state = "live"}
    /\ CommitObjectCast(object_dynamic_cast(State, obj, name), name,
                        IF obj = NULL THEN NoClass ELSE objects[obj].class)
    /\ UNCHANGED enum_stack

\* object_dynamic_cast_assert (OBJECT_CHECK, INTERFACE_CHECK) on NULL or on a live
\* object: the object returned, the class of the object passed
ObjectDynamicCastAssert(obj, name) ==
    /\ CanCall
    /\ obj \in {NULL} \cup {o \in 1..Len(objects) : objects[o].state = "live"}
    /\ CommitCast(Ret(object_dynamic_cast_assert(State, obj, name).st, NoClass),
                  "object_dynamic_cast_assert", name,
                  object_dynamic_cast_assert(State, obj, name).ret,
                  IF obj = NULL THEN NoClass ELSE objects[obj].class)
    /\ UNCHANGED enum_stack

\* is_compatible_type(name, target): the target name is recorded as the class
\* argument of the call, the boolean returned as its result
IsCompatibleType(name, target) ==
    /\ CanCall
    /\ CommitCast(is_compatible_type(State, name, target), "is_compatible_type",
                  name, NULL, target)
    /\ UNCHANGED enum_stack

\* the caller's pointers: NULL, or a storage that has not been released
Pointers == {NULL} \cup {o \in 1..Len(objects) :
                            objects[o].state \in {"live", "finalized"}}

\* bookkeeping of a single ref/unref call on obj: the number of calls, and whether
\* the calls so far are a balanced sequence (held = refs - unrefs, never negative),
\* a balanced sequence plus one unref, or anything beyond that
Counted(st, obj, delta) ==
    IF obj = NULL THEN st
    ELSE [st EXCEPT
            !.objects[obj].calls = @ + 1,
            !.objects[obj].held =
                IF objects[obj].bal = "balanced" /\ @ + delta >= 0
                THEN @ + delta ELSE @,
            !.objects[obj].bal =
                IF @ = "balanced"
                THEN IF objects[obj].held + delta >= 0 THEN "balanced"
                     ELSE "one_over"
                ELSE "beyond"]

ObjectRef(obj) ==
    /\ CanCall
    /\ obj \in Pointers
    /\ obj # NULL => objects[obj].calls < MaxRefCalls
    /\ Commit(Counted(object_ref(State, obj), obj, 1), "object_ref", NoName, obj)
    /\ UNCHANGED enum_stack

ObjectUnref(obj) ==
    /\ CanCall
    /\ obj \in Pointers
    /\ obj # NULL => objects[obj].calls < MaxRefCalls
    /\ Commit(Counted(object_unref(State, obj), obj, -1), "object_unref", NoName,
              obj)
    /\ UNCHANGED enum_stack

\* n object_unref calls in a row, each observing a count above 1: every one of
\* them only decrements
LoopCounts == {U32(HalfMod - 1, HalfMod - 3)}

ObjectUnrefLoop(obj, n) ==
    /\ CanCall
    /\ obj \in Pointers \ {NULL}
    /\ U32Less(n, objects[obj].ref)
    /\ Commit([State EXCEPT !.objects[obj].ref = U32Sub(@, n),
                            !.objects[obj].bal = "beyond"],
              "object_unref_loop", NoName, obj)
    /\ UNCHANGED enum_stack

\* what the read of obj->ref through a dangling pointer yields
DanglingRef(outcome) ==
    CASE outcome = "assert" -> U32Zero
      [] outcome = "again" -> U32One
      [] outcome = "silent" -> U32(0, 2)

\* object_unref through a dangling pointer (the storage was freed): the read of
\* obj->ref is undefined; the count may read 0 (the assertion fails), 1 (the
\* finalize chain and free run again) or more (nothing visible happens)
ObjectUnrefDangling(obj, outcome) ==
    /\ CanCall
    /\ obj \in 1..Len(objects)
    /\ objects[obj].state = "freed"
    /\ objects[obj].freed < 2
    /\ Commit(object_unref([State EXCEPT !.objects[obj].ref = DanglingRef(outcome)],
                           obj),
              "object_unref_dangling", NoName, obj)
    /\ UNCHANGED enum_stack

-----------------------------------------------------------------------------
(* Enumeration.  object_class_foreach is in progress from the moment it    *)
(* sets enumerating_types until it clears it; in between, the trampoline   *)
(* visits the registered types one by one and the callback fn may call the *)
(* API.  A frame of enum_stack is one call in progress.                    *)

\* the callbacks: a user callback, which may call the API, and
\* object_class_get_list_tramp, which only collects the class
Callbacks == {"fn", "object_class_get_list_tramp"}

Top == enum_stack[Len(enum_stack)]

\* object_class_foreach up to the call of g_hash_table_foreach
\* (object_class_get_list when fn is its trampoline).  The frame keeps the
\* parameters, the entries present at the start, the entries visited, and for
\* each type how often the callback was called with its class.
ObjectClassForeach(fn, implements_type, include_abstract) ==
    /\ CanCall
    /\ Len(enum_stack) < MaxEnumDepth
    /\ enum_stack' = Append(enum_stack,
                            [fn |-> fn, implements_type |-> implements_type,
                             include_abstract |-> include_abstract,
                             start |-> DOMAIN type_table, visited |-> {},
                             called |-> <<>>, in_fn |-> FALSE])
    /\ Commit([State EXCEPT !.enumerating_types = TRUE],
              IF fn = "fn" THEN "object_class_foreach" ELSE "object_class_get_list",
              NoName, NULL)

\* does the trampoline return before calling fn; st is the state after
\* type_initialize(type)
TrampSkips(st, type, include_abstract) ==
    ~Running(st) \/ (~include_abstract /\ st.types[type].abstract)

\* data->fn(k, data->opaque) unless the cast of k to implements_type, whose
\* result is c, gave NULL
object_class_foreach_tramp_cast(c, type, fn) ==
    IF ~Running(c.st) \/ c.ret = NoClass THEN c.st
    ELSE Hook(c.st, fn, NoName, c.st.types[type].name)

\* the trampoline without its test of implements_type
object_class_foreach_tramp_any(st, type, fn, implements_type, include_abstract) ==
    IF TrampSkips(st, type, include_abstract) THEN st
    ELSE Hook(st, fn, NoName, st.types[type].name)

\* object_class_foreach_tramp after type_initialize(type)
object_class_foreach_tramp_fn(st, type, fn, implements_type, include_abstract) ==
    IF TrampSkips(st, type, include_abstract) THEN st
    ELSE IF implements_type = NoName THEN Hook(st, fn, NoName, st.types[type].name)
    ELSE object_class_foreach_tramp_cast(
             object_class_dynamic_cast(st, st.types[type].class, implements_type),
             type, fn)

object_class_foreach_tramp(st, type, fn, implements_type, include_abstract) ==
    object_class_foreach_tramp_fn(type_initialize(st, type), type, fn,
                                  implements_type, include_abstract)

\* the trampoline on one entry of the table; the previous callback, if any, has
\* returned
ForeachTramp(name) ==
    /\ aborted = ""
    /\ enum_stack # <<>>
    /\ name \in DOMAIN type_table \ Top.visited
    /\ Commit(object_class_foreach_tramp(State, type_table[name], Top.fn,
                                         Top.implements_type, Top.include_abstract),
              "object_class_foreach_tramp", name, NULL)
    /\ enum_stack' = [enum_stack EXCEPT
                         ![Len(enum_stack)].visited = @ \cup {name},
                         ![Len(enum_stack)].called =
                             IF /\ last'.trace # <<>>
                                /\ last'.trace[Len(last'.trace)].hook = Top.fn
                             THEN Alloc(@, name,
                                        IF name \in DOMAIN @ THEN @[name] + 1 ELSE 1)
                             ELSE @,
                         ![Len(enum_stack)].in_fn =
                             /\ last'.trace # <<>>
                             /\ last'.trace[Len(last'.trace)].hook = "fn"]

\* g_hash_table_foreach has returned: every entry present at the start was
\* visited (entries inserted meanwhile may or may not have been)
ForeachReturn ==
    /\ aborted = ""
    /\ enum_stack # <<>>
    /\ Top.start \subseteq Top.visited
    /\ enum_stack' = SubSeq(enum_stack, 1, Len(enum_stack) - 1)
    /\ Commit([State EXCEPT !.enumerating_types = FALSE],
              "object_class_foreach_return", NoName, NULL)

-----------------------------------------------------------------------------
(* Specifications.                                                         *)

\* the program state before any call
EmptyState ==
    [type_table |-> <<>>, types |-> <<>>, classes |-> <<>>, objects |-> <<>>,
     enumerating_types |-> FALSE, aborted |-> "", class_init_runs |-> <<>>,
     trace |-> <<>>]

\* instance sizes callers pass to object_initialize
BufferSizes == {SizeofObject, SizeofBase}

\* Spec: registration, class initialisation and instantiation
Next ==
    \/ ObjectTypeRegister
    \/ \E info \in CoreInfos : TypeRegister(info)
    \/ \E name \in CoreNames : ObjectClassByName(name)
    \/ \E name \in CoreNames : ObjectClassGetParent(name)
    \/ \E name \in CoreNames : ObjectNew(name)
    \/ \E name \in CoreNames, size \in BufferSizes : ObjectInitialize(size, name)

Spec == Init /\ [][Next]_vars

\* SpecEnum: registration and enumeration after object_type_register(), with
\* callbacks that register types and enumerate again
EnumInfos == {base_info, x_info}

InitEnum ==
    /\ type_table = object_type_register(EmptyState).type_table
    /\ types = object_type_register(EmptyState).types
    /\ classes = <<>>
    /\ objects = <<>>
    /\ enumerating_types = FALSE
    /\ enum_stack = <<>>
    /\ aborted = ""
    /\ class_init_runs = object_type_register(EmptyState).class_init_runs
    /\ last = NoCall

NextEnum ==
    \/ \E info \in EnumInfos : TypeRegister(info)
    \/ \E fn \in Callbacks, ia \in BOOLEAN : ObjectClassForeach(fn, NoName, ia)
    \/ \E name \in DOMAIN type_table : ForeachTramp(name)
    \/ ForeachReturn

SpecEnum == InitEnum /\ [][NextEnum]_vars

\* SpecMat: every operation that triggers class initialisation, on "base" and
\* "derived", after the root types are registered
MatInfos == {base_info, derived_info}

MatNames == {TYPE_BASE, "derived"}

NextMat ==
    \/ \E info \in MatInfos : TypeRegister(info)
    \/ \E name \in MatNames : ObjectClassByName(name)
    \/ \E name \in MatNames : ObjectClassGetParent(name)
    \/ ObjectNew("derived")
    \/ ObjectInitialize(SizeofBase, TYPE_BASE)
    \/ ObjectClassForeach("fn", NoName, TRUE)
    \/ \E name \in DOMAIN type_table : ForeachTramp(name)
    \/ ForeachReturn

SpecMat == InitEnum /\ [][NextMat]_vars

\* SpecEach: enumerations with a filter, from main-line code, after main()
\* registered the root types, the interface "ifoo", "base", its abstract subtype
\* "abs" and "impl", which implements "ifoo"
EachInfos == <<ifoo_info, base_info, abs_info, impl_info>>

RECURSIVE EachRegistered(_)
EachRegistered(n) ==
    IF n = 0 THEN object_type_register(EmptyState)
    ELSE type_register(EachRegistered(n - 1), EachInfos[n]).st

InitEach ==
    /\ type_table = EachRegistered(Len(EachInfos)).type_table
    /\ types = EachRegistered(Len(EachInfos)).types
    /\ classes = <<>>
    /\ objects = <<>>
    /\ enumerating_types = FALSE
    /\ enum_stack = <<>>
    /\ aborted = ""
    /\ class_init_runs = EachRegistered(Len(EachInfos)).class_init_runs
    /\ last = NoCall

\* the values of implements_type: NULL, an interface, a parent type, an abstract
\* type, a name that is not registered
EachFilters == {NoName, "ifoo", TYPE_OBJECT, TYPE_BASE, "abs", "ghost"}

NextEach ==
    \/ /\ enum_stack = <<>>
       /\ \E fn \in Callbacks, filter \in EachFilters, ia \in BOOLEAN :
             ObjectClassForeach(fn, filter, ia)
    \/ \E name \in DOMAIN type_table : ForeachTramp(name)
    \/ ForeachReturn

SpecEach == InitEach /\ [][NextEach]_vars

\* SpecLazy: GET_CLASS and every operation that triggers class initialisation, on
\* "base" (initialised on demand) and "derived" (initialised at registration);
\* the enumeration is object_class_get_list, whose callback calls nothing
NextLazy ==
    \/ \E info \in MatInfos : TypeRegister(info)
    \/ \E name \in MatNames : GetClassByName(name)
    \/ \E name \in MatNames : ObjectClassByName(name)
    \/ \E name \in MatNames : ObjectClassGetParent(name)
    \/ \E name \in MatNames : ObjectNew(name)
    \/ ObjectInitialize(SizeofBase, TYPE_BASE)
    \/ ObjectClassForeach("object_class_get_list_tramp", NoName, TRUE)
    \/ \E name \in DOMAIN type_table : ForeachTramp(name)
    \/ ForeachReturn

SpecLazy == InitEnum /\ [][NextLazy]_vars

\* SpecClass: class initialisation along the chains "object" - "base" -
\* "derived" - "leaf" - "tip" and "object" - "eager" - "kid", after the root types
\* are registered
ClassInfos == {base_info, derived_info, leaf_info, tip_info, eager_info, kid_info}

ClassNames == {info.name : info \in ClassInfos}

NextClass ==
    \/ \E info \in ClassInfos : TypeRegister(info)
    \/ \E name \in ClassNames : ObjectClassByName(name)
    \/ \E name \in ClassNames : ObjectClassGetParent(name)

SpecClass == InitEnum /\ [][NextClass]_vars

\* SpecCast: casts of classes and objects, and is_compatible_type on a type and
\* an interface, after main() registered the root
\* types, the interfaces "ifoo" and "ibar", "base", "impl", "sub", "rev" and
\* "fwd", and looked up the classes of "base", "sub", "rev" and "fwd"
CastInfos ==
    <<ifoo_info, ibar_info, base_info, impl_info, sub_info, rev_info, fwd_info>>

RECURSIVE CastRegistered(_)
CastRegistered(n) ==
    IF n = 0 THEN object_type_register(EmptyState)
    ELSE type_register(CastRegistered(n - 1), CastInfos[n]).st

CastInitialized ==
    object_class_by_name(
        object_class_by_name(
            object_class_by_name(
                object_class_by_name(CastRegistered(Len(CastInfos)), TYPE_BASE).st,
                "sub").st,
            "rev").st,
        "fwd").st

InitCast ==
    /\ type_table = CastInitialized.type_table
    /\ types = CastInitialized.types
    /\ classes = CastInitialized.classes
    /\ objects = <<>>
    /\ enumerating_types = FALSE
    /\ enum_stack = <<>>
    /\ aborted = ""
    /\ class_init_runs = CastInitialized.class_init_runs
    /\ last = NoCall

\* the names passed to the casts; "ghost" is never registered
CastNames ==
    {TYPE_OBJECT, TYPE_INTERFACE, TYPE_BASE, "ifoo", "ibar", "impl", "orphan",
     "ghost"}

\* the types object_new is called with
CastObjects == {"impl", "sub", "fwd"}

NextCast ==
    \/ TypeRegister(orphan_info)
    \/ \E name \in CastObjects : ObjectNew(name)
    \/ \E class \in DOMAIN classes \cup {NoClass}, name \in CastNames :
          ObjectClassDynamicCast(class, name)
    \/ \E class \in DOMAIN classes \cup {NoClass}, name \in CastNames :
          ObjectClassDynamicCastAssert(class, name)
    \/ \E obj \in 0..MaxObjects, name \in CastNames : ObjectDynamicCast(obj, name)
    \/ \E obj \in 0..MaxObjects, name \in CastNames :
          ObjectDynamicCastAssert(obj, name)
    \/ \E name \in CastObjects, target \in {"ifoo", "ibar"} :
          IsCompatibleType(name, target)

SpecCast == InitCast /\ [][NextCast]_vars

\* SpecCompat: is_compatible_type on the same registry; the names passed are
\* those of the casts, the types with interfaces, and NULL
CompatNames == CastNames \cup {"sub", "rev", "fwd", NoName}

NextCompat ==
    \/ TypeRegister(orphan_info)
    \/ \E name \in CompatNames, target \in CompatNames :
          IsCompatibleType(name, target)

SpecCompat == InitCast /\ [][NextCompat]_vars

\* SpecChain: registration in any order and class initialisation of types whose
\* parent or interface is registered late or never, or whose parent names form
\* a cycle, after the root types are registered
ChainInfos ==
    {base_info, derived_info, abs_info, orphan_info, noif_info, loop_info,
     ping_info, pong_info}

\* the names passed to the by-name functions: the types above, a name that is
\* never registered, and NULL
ChainNames == {info.name : info \in ChainInfos} \cup {"ghost", NoName}

NextChain ==
    \/ \E info \in ChainInfos : TypeRegister(info)
    \/ \E name \in ChainNames : ObjectClassByName(name)
    \/ \E name \in ChainNames \ {NoName, "ghost"} : ObjectNew(name)

SpecChain == InitEnum /\ [][NextChain]_vars

\* SpecIface: registration in any order and class initialisation of the
\* interfaces "ifoo" and "ibar" and of the types that declare them, after the
\* root types are registered
IfaceInfos == {ifoo_info, ibar_info, impl_info, sub_info, rev_info, fwd_info}

IfaceNames == {info.name : info \in IfaceInfos}

NextIface ==
    \/ \E info \in IfaceInfos : TypeRegister(info)
    \/ \E name \in IfaceNames : ObjectClassByName(name)

SpecIface == InitEnum /\ [][NextIface]_vars

\* SpecFrame: class initialisation of types with class_base_init hooks and of
\* types with interfaces side by side, after the root types are registered
FrameInfos ==
    {base_info, derived_info, leaf_info, tip_info, ifoo_info, impl_info, sub_info}

FrameNames == {info.name : info \in FrameInfos}

NextFrame ==
    \/ \E info \in FrameInfos : TypeRegister(info)
    \/ \E name \in FrameNames : ObjectClassByName(name)
    \/ \E name \in FrameNames : ObjectNew(name)

SpecFrame == InitEnum /\ [][NextFrame]_vars

\* SpecSize: the sizes of types that inherit them along the chains "object" -
\* "base" - "derived" - "leaf" - "tip", "object" - "x" and "interface" - "ifoo",
\* asked for before and after the classes are initialised
SizeInfos == {base_info, derived_info, leaf_info, tip_info, x_info, ifoo_info}

\* the names passed to the by-name functions: the types above, the root types, a
\* name that is never registered, and NULL
SizeNames ==
    {info.name : info \in SizeInfos} \cup {TYPE_OBJECT, TYPE_INTERFACE, "ghost", NoName}

NextSize ==
    \/ \E info \in SizeInfos : TypeRegister(info)
    \/ \E name \in SizeNames : ObjectClassByName(name)
    \/ \E name \in SizeNames : ObjectTypeGetInstanceSize(name)

SpecSize == InitEnum /\ [][NextSize]_vars

\* SpecStruct: class initialisation and instantiation of types whose sizes are
\* too small, and of "base" in buffers of any size, after the root types are
\* registered
StructInfos == {base_info, narrow_info, slim_info, tiny_info, mini_info}

StructNames == {info.name : info \in StructInfos}

\* the sizes of the buffers passed to object_initialize
StructSizes == {SizeofMethod, SizeofObject, SizeofBase}

NextStruct ==
    \/ \E info \in StructInfos : TypeRegister(info)
    \/ \E name \in StructNames : ObjectClassByName(name)
    \/ \E name \in StructNames : ObjectNew(name)
    \/ \E name \in StructNames, size \in StructSizes : ObjectInitialize(size, name)

SpecStruct == InitEnum /\ [][NextStruct]_vars

\* SpecWide: registration of types whose TypeInfo names up to MAX_INTERFACES
\* interfaces and of one that names more, and class initialisation of the
\* former, after the root types are registered
WideInfos == {ifoo_info, impl_info, full_info}

WideNames == {info.name : info \in WideInfos}

NextWide ==
    \/ \E info \in WideInfos : TypeRegister(info)
    \/ \E outcome \in OverrunOutcomes : TypeRegisterOverrun(wide_info, outcome)
    \/ \E name \in WideNames : ObjectClassByName(name)
    \/ \E name \in WideNames : ObjectNew(name)

SpecWide == InitEnum /\ [][NextWide]_vars

\* SpecLife: the life of objects, after main() registered the root types, "base"
\* and "derived"
Registered ==
    type_register(type_register(object_type_register(EmptyState), base_info).st,
                  derived_info).st

InitLife ==
    /\ type_table = Registered.type_table
    /\ types = Registered.types
    /\ classes = Registered.classes
    /\ objects = <<>>
    /\ enumerating_types = FALSE
    /\ enum_stack = <<>>
    /\ aborted = ""
    /\ class_init_runs = Registered.class_init_runs
    /\ last = NoCall

LifeNames == {TYPE_BASE, "derived"}

NextLife ==
    \/ \E name \in LifeNames : ObjectNew(name)
    \/ \E name \in LifeNames : ObjectInitialize(SizeofBase, name)
    \/ \E obj \in 0..MaxObjects : ObjectRef(obj)
    \/ \E obj \in 0..MaxObjects : ObjectUnref(obj)
    \/ \E obj \in 1..MaxObjects, n \in LoopCounts : ObjectUnrefLoop(obj, n)
    \/ \E obj \in 1..MaxObjects, outcome \in {"assert", "silent", "again"} :
          ObjectUnrefDangling(obj, outcome)

SpecLife == InitLife /\ [][NextLife]_vars

-----------------------------------------------------------------------------
(* Properties of reference counting and finalisation (SpecLife).           *)

\* x + 1 in guint32 arithmetic
U32Inc(x) ==
    IF x.lo < HalfMod - 1 THEN U32(x.hi, x.lo + 1)
    ELSE IF x.hi < HalfMod - 1 THEN U32(x.hi + 1, 0)
    ELSE U32Zero

Storages == 1..Len(objects)

\* C1: right after object_new or object_initialize returns for a registered
\* non-abstract type, the reference count of the object is 1.
C1_InitialRefIsOne ==
    (last.op \in {"object_new", "object_initialize"} /\ aborted = "")
        => objects[last.obj].ref = U32One

\* C2: object_ref on a live object increases its reference count by exactly one
\* and does not finalize the object.
C2_RefIncrements ==
    [][(last'.op = "object_ref" /\ last'.obj # NULL
        /\ objects[last'.obj].state = "live")
       => /\ objects'[last'.obj].ref = U32Inc(objects[last'.obj].ref)
          /\ objects'[last'.obj].finalized = objects[last'.obj].finalized
          /\ objects'[last'.obj].state = "live"]_vars

\* C3: an object from object_new is still live after a balanced sequence of
\* object_ref / object_unref calls, and the one further object_unref has
\* finalized it, exactly once.
C3_BalancedThenFinalized ==
    \A o \in Storages :
        (objects[o].mem = "heap" /\ objects[o].state # "raw")
        => /\ (objects[o].bal = "balanced" /\ objects[o].held = 0)
                => (objects[o].state = "live" /\ objects[o].finalized = 0)
           /\ objects[o].bal = "one_over"
                => (objects[o].finalized = 1 /\ objects[o].freed = 1)

\* the names on the parent chain of a registered type, the type first
RECURSIVE ParentChain(_)
ParentChain(name) ==
    IF name = NoName THEN <<>>
    ELSE <<name>> \o ParentChain(types[type_table[name]].parent)

\* the instance_finalize calls expected for an object of type `name`
RECURSIVE FinalizeCalls(_, _)
FinalizeCalls(chain, name) ==
    IF chain = <<>> THEN <<>>
    ELSE (IF types[type_table[Head(chain)]].instance_finalize
          THEN <<[hook |-> "instance_finalize", type |-> Head(chain), on |-> name]>>
          ELSE <<>>)
         \o FinalizeCalls(Tail(chain), name)

FreeCall == [hook |-> "free", type |-> NoName, on |-> NoName]

\* C4: when an object of type T is finalized, the instance_finalize hooks run in
\* the order T, parent(T), ..., root, each present hook once, and after them the
\* deallocator, which is called iff the object came from object_new.
C4_FinalizeChainOrder ==
    [][\A o \in Storages :
          objects'[o].finalized # objects[o].finalized
          => last'.trace =
                FinalizeCalls(ParentChain(TypeNameOf(State, o)), TypeNameOf(State, o))
                \o (IF objects[o].mem = "heap" THEN <<FreeCall>> ELSE <<>>)]_vars

\* an object of type "derived" from object_new was finalized by object_unref:
\* the finalizers of "derived" and "base" ran, then free
C4_Witness ==
    /\ last.op = "object_unref"
    /\ last.obj # NULL
    /\ objects[last.obj].mem = "heap"
    /\ objects[last.obj].finalized = 1
    /\ TypeNameOf(State, last.obj) = "derived"
    /\ Len(last.trace) = 3

\* C5: object_unref on an object whose reference count is already zero (and whose
\* storage has not been released) is fatal and runs neither the finalize chain
\* nor the deallocator.
C5_UnrefAtZeroIsFatal ==
    [][(last'.op = "object_unref" /\ last'.obj # NULL
        /\ objects[last'.obj].ref = U32Zero)
       => /\ aborted' # ""
          /\ last'.trace = <<>>
          /\ objects'[last'.obj].finalized = objects[last'.obj].finalized
          /\ objects'[last'.obj].freed = objects[last'.obj].freed]_vars

\* object_unref was called on an in-place object that object_unref had finalized
\* before, and the process ended
C5_Witness ==
    /\ last.op = "object_unref"
    /\ last.obj # NULL
    /\ objects[last.obj].mem = "buf"
    /\ objects[last.obj].finalized = 1
    /\ objects[last.obj].ref = U32Zero
    /\ aborted = "assertion failed (obj->ref > 0)"

-----------------------------------------------------------------------------
(* Properties of the registry and of class initialisation.                 *)

\* the TypeInfo a name was (or would be) registered with
AllInfos ==
    CoreInfos \cup ClassInfos
    \cup {interface_info, object_info, ibar_info, impl_info, sub_info, rev_info,
          fwd_info, orphan_info, noif_info, loop_info, ping_info, pong_info,
          narrow_info, slim_info, tiny_info, mini_info, full_info, wide_info}

InfoOf(name) == CHOOSE info \in AllInfos : info.name = name

\* the first non-zero instance_size on the parent chain of the TypeInfos, or 0
RECURSIVE EffectiveInstanceSize(_)
EffectiveInstanceSize(name) ==
    IF InfoOf(name).instance_size # 0 THEN InfoOf(name).instance_size
    ELSE IF InfoOf(name).parent = NoName THEN 0
    ELSE EffectiveInstanceSize(InfoOf(name).parent)

Materialized(name) ==
    name \in DOMAIN type_table /\ types[type_table[name]].class # NoClass

\* C6: registering a name that is already in the registry is fatal, so every
\* registered name resolves to one descriptor with that name, the one the first
\* registration of the name allocated (its pointer is the name itself).
C6_UniqueRegistration ==
    /\ [](\A n \in DOMAIN type_table :
            type_table[n] = n /\ types[type_table[n]].name = n)
    /\ [][/\ (last'.op = "type_register" /\ last'.name \in DOMAIN type_table)
             => (aborted' # "" /\ type_table' = type_table /\ types' = types)
          /\ (last'.op = "object_type_register"
              /\ TYPE_INTERFACE \in DOMAIN type_table)
             => (aborted' # "" /\ type_table' = type_table)]_vars

\* "base" was registered a second time: the process ended and the registry still
\* resolves "base" to the first descriptor
C6_Witness ==
    /\ last.op = "type_register"
    /\ last.name = TYPE_BASE
    /\ aborted = "Registering type which already exists"
    /\ type_table[TYPE_BASE] = TYPE_BASE

\* C7: while an object_class_foreach / object_class_get_list call is in
\* progress the enumerating flag is set, and every registration attempted
\* meanwhile is fatal.
C7_RegistrationFatalWhileEnumerating ==
    /\ enum_stack # <<>> => enumerating_types
    /\ (last.op = "type_register" /\ last.depth > 0) => aborted # ""

\* C8: object_new and object_initialize are fatal for a name that is not
\* registered or whose type is abstract (declared, or effective instance size 0),
\* and the type of the class of every object is not abstract.
C8_NoAbstractInstance ==
    /\ \A o \in Storages :
          objects[o].state # "raw"
          => ~types[classes[objects[o].class].type].abstract
    /\ (/\ last.op \in {"object_new", "object_initialize"}
        /\ \/ last.name \notin DOMAIN type_table
           \/ InfoOf(last.name).abstract
           \/ EffectiveInstanceSize(last.name) = 0)
       => /\ aborted # ""
          /\ last.obj = NULL \/ objects[last.obj].state = "raw"

\* object_new("abs") on the registered, declared-abstract type ended the process
\* at the assertion on abstract
C8_Witness ==
    /\ last.op = "object_new"
    /\ last.name = "abs"
    /\ Materialized("abs")
    /\ aborted = "assertion failed: ( type->abstract == false )"

\* C9 as stated: a type registered with instance_size = 0 is abstract once its
\* class is initialised, and object_new on it is fatal.
C9_ZeroSizeIsAbstract ==
    /\ \A n \in DOMAIN type_table :
          (InfoOf(n).instance_size = 0 /\ Materialized(n))
          => types[type_table[n]].abstract
    /\ (/\ last.op = "object_new"
        /\ last.name \in DOMAIN type_table
        /\ InfoOf(last.name).instance_size = 0)
       => aborted # ""

\* C9 as amended: a type whose effective instance size (the first non-zero
\* instance_size on its parent chain) is 0 is abstract once its class is
\* initialised, and object_new on it is fatal.
C9_ZeroEffectiveSizeIsAbstract ==
    /\ \A n \in DOMAIN type_table :
          (EffectiveInstanceSize(n) = 0 /\ Materialized(n))
          => types[type_table[n]].abstract
    /\ (/\ last.op = "object_new"
        /\ last.name \in DOMAIN type_table
        /\ EffectiveInstanceSize(last.name) = 0)
       => aborted # ""

\* object_new("ifoo"): "ifoo" was registered with abstract = false and
\* instance_size = 0 below "interface"; its class was initialised, it became
\* abstract, and the call ended the process
C9_Witness ==
    /\ last.op = "object_new"
    /\ last.name = "ifoo"
    /\ Materialized("ifoo")
    /\ ~InfoOf("ifoo").abstract
    /\ types[type_table["ifoo"]].abstract
    /\ aborted # ""

\* C10: whatever operations trigger class initialisation, the class_init hook of
\* a type runs at most once, and a class pointer that is set never changes.
C10_MaterializeOnce ==
    /\ [](\A t \in DOMAIN types : class_init_runs[t] <= 1)
    /\ [][\A t \in DOMAIN types :
             types[t].class # NoClass => types'[t].class = types[t].class]_vars

\* object_new("derived") after "derived" was initialised at its registration:
\* no class_init ran in the call, and "derived" and "base" have run theirs once
C10_Witness ==
    /\ last.op = "object_new"
    /\ last.name = "derived"
    /\ aborted = ""
    /\ \A i \in 1..Len(last.trace) : last.trace[i].hook # "class_init"
    /\ class_init_runs[type_table["derived"]] = 1
    /\ class_init_runs[type_table[TYPE_BASE]] = 1

-----------------------------------------------------------------------------
(* Properties of the order of class initialisation (SpecClass).  They are  *)
(* stated on the record of the last call: the hook calls and returns, the  *)
(* copies of a parent's class, and the classes a hook obtained.            *)

Events == 1..Len(last.trace)

\* C11: a class that an observer holds is completely initialised: whenever a
\* hook obtains the class of a type T from object_class_by_name, the class_init of
\* T has already returned.
C11_ClassExposedAfterInit ==
    \A i \in Events :
        last.trace[i].hook = "observe"
        => ~\E j \in Events :
               /\ j > i
               /\ last.trace[j].hook = "class_init_return"
               /\ last.trace[j].type = last.trace[i].type

\* the types whose class the last call initialised from the class of a parent
Copied == {last.trace[i].on : i \in {j \in Events : last.trace[j].hook = "memcpy"}}
             \cap DOMAIN type_table

\* the class_base_init calls of the last call on the class of `name`
BaseInitCalls(name) ==
    SelectSeq(last.trace, LAMBDA e : e.hook = "class_base_init" /\ e.on = name)

\* the class_base_init calls on the class of `name` for the ancestors in `chain`
\* (nearest first) that have the hook, the call for the last of them first
RECURSIVE RootFirstBaseInit(_, _)
RootFirstBaseInit(chain, name) ==
    IF chain = <<>> THEN <<>>
    ELSE RootFirstBaseInit(Tail(chain), name)
         \o (IF types[type_table[Head(chain)]].class_base_init
             THEN <<[hook |-> "class_base_init", type |-> Head(chain), on |-> name]>>
             ELSE <<>>)

\* C12: the class_base_init hooks of the ancestors of T are called on the class of
\* T from the root towards T (root first, the parent of T last), each hook that is
\* present exactly once.
C12_BaseInitRootFirst ==
    aborted = ""
    => \A name \in Copied :
          BaseInitCalls(name) = RootFirstBaseInit(Tail(ParentChain(name)), name)

\* event i of the last call is the hook (or step) `hook` of type `type`
Is(i, hook, type) == last.trace[i].hook = hook /\ last.trace[i].type = type

\* the class_init of `type` was called before event i and has not returned by then
Open(i, type) ==
    \E j \in Events :
        /\ j < i
        /\ Is(j, "class_init", type)
        /\ ~\E k \in Events : j < k /\ k < i /\ Is(k, "class_init_return", type)

\* C13: when the class of P is copied into the class of its subtype T, the
\* class_init of P has returned; the class_base_init hooks called on the class of
\* T run after that copy and before the class_init of T; the class_init of T is
\* the last hook that runs on the class of T.
C13_CopyAfterParentInit ==
    \A i \in Events :
        /\ last.trace[i].hook = "memcpy"
           => /\ ~Open(i, last.trace[i].type)
              /\ ~\E j \in Events : j > i /\ Is(j, "class_init", last.trace[i].type)
        /\ last.trace[i].hook = "class_base_init"
           => /\ \E j \in Events :
                    /\ j < i
                    /\ last.trace[j].hook = "memcpy"
                    /\ last.trace[j].on = last.trace[i].on
              /\ ~\E j \in Events : j < i /\ Is(j, "class_init", last.trace[i].on)
        /\ last.trace[i].hook = "class_init"
           => ~\E j \in Events :
                  /\ j > i
                  /\ last.trace[j].on = last.trace[i].type
                  /\ last.trace[j].hook \in {"memcpy", "class_base_init"}

\* the method pointers of the class of `name` that its own class_init or the
\* class_base_init of one of its ancestors stores into
Written(name) ==
    ClassInitWrites(name)
    \cup UNION {ClassBaseInitWrites(ParentChain(name)[a]) :
                   a \in 2..Len(ParentChain(name))}

MethodsOf(name) == classes[types[type_table[name]].class].methods

\* C14: in the class of an initialised type T with parent P, a method pointer
\* that no hook of T's initialisation stored into equals the one of P's class, or
\* is NULL when it lies beyond P's class; a method pointer set by T's class_init
\* holds T's implementation, and P's class keeps its own.
C14_InheritedMethods ==
    aborted = ""
    => \A name \in DOMAIN type_table :
          (Materialized(name) /\ InfoOf(name).parent # NoName)
          => \A w \in DOMAIN MethodsOf(name) :
                /\ w \notin Written(name)
                   => MethodsOf(name)[w] =
                         IF w \in DOMAIN MethodsOf(InfoOf(name).parent)
                         THEN MethodsOf(InfoOf(name).parent)[w]
                         ELSE NoMethod
                /\ w \in ClassInitWrites(name) => MethodsOf(name)[w] = name

-----------------------------------------------------------------------------
(* Properties of object construction.                                      *)

\* the instance_init calls of the last call
InstanceInitCalls == SelectSeq(last.trace, LAMBDA e : e.hook = "instance_init")

\* the instance_init calls on an object of type `name` for the types in `chain`
\* (nearest first) that have the hook, the call for the last of them first
RECURSIVE RootFirstInstanceInit(_, _)
RootFirstInstanceInit(chain, name) ==
    IF chain = <<>> THEN <<>>
    ELSE RootFirstInstanceInit(Tail(chain), name)
         \o (IF types[type_table[Head(chain)]].instance_init
             THEN <<[hook |-> "instance_init", type |-> Head(chain), on |-> name]>>
             ELSE <<>>)

\* C15: object_new / object_initialize of type T clears the storage (a free
\* pointer left in it is gone), binds the object to the class of T and runs the
\* instance_init hooks root first, T last, each present hook once, before it
\* returns.
C15_InstanceInitOrder ==
    (last.op \in {"object_new", "object_initialize"} /\ aborted = "")
    => /\ last.obj # NULL
       /\ objects[last.obj].class = types[type_table[last.name]].class
       /\ objects[last.obj].free = (last.op = "object_new")
       /\ InstanceInitCalls = RootFirstInstanceInit(ParentChain(last.name), last.name)

\* object_initialize of a "derived" in a buffer: the hook of "base" ran, then the
\* hook of "derived"
C15_Witness ==
    /\ last.op = "object_initialize"
    /\ last.name = "derived"
    /\ aborted = ""
    /\ objects[last.obj].state = "live"
    /\ InstanceInitCalls =
          <<[hook |-> "instance_init", type |-> TYPE_BASE, on |-> "derived"],
            [hook |-> "instance_init", type |-> "derived", on |-> "derived"]>>

-----------------------------------------------------------------------------
(* Properties of the casts (SpecCast).                                     *)

\* the descriptors on the parent chain of the descriptor t, t included
RECURSIVE TypeChain(_)
TypeChain(t) ==
    IF t = NoType THEN {} ELSE {t} \cup TypeChain(types[t].parent_type)

\* the registered names on the chain of parent names of `name`, `name` included
RECURSIVE NameChain(_)
NameChain(name) ==
    IF name \notin DOMAIN type_table THEN {}
    ELSE {name} \cup NameChain(types[type_table[name]].parent)

\* the interfaces declared by the type `name` or by one of its ancestors
Implements(name) ==
    UNION {{InfoOf(n).interfaces[i] : i \in DOMAIN InfoOf(n).interfaces} :
              n \in NameChain(name)}

\* the entries of the interface list of `class` whose type has `target` on its
\* parent chain
EntriesReaching(class, target) ==
    {classes[class].interfaces[i] : i \in
        {j \in DOMAIN classes[class].interfaces :
            target \in TypeChain(classes[classes[class].interfaces[j]].type)}}

ClassCasts == {"object_class_dynamic_cast"}

Casts == ClassCasts \cup {"object_dynamic_cast"}

\* C16: for the class of a type C and an interface I that C or an ancestor of C
\* declares, object_class_dynamic_cast(class, I) returns an entry of the interface
\* list of the class whose interface type is I, below I or above I.
C16_ImplementedInterfaceCasts ==
    \A n \in DOMAIN type_table :
        (/\ last.op \in ClassCasts
         /\ last.class # NoClass
         /\ last.class = types[type_table[n]].class
         /\ last.name \in Implements(n))
        => /\ aborted = ""
           /\ last.ret \in EntriesReaching(last.class, type_interface(State))
           /\ \/ type_table[last.name] \in TypeChain(classes[last.ret].interface_type)
              \/ classes[last.ret].interface_type \in TypeChain(type_table[last.name])

\* C17: when two or more entries of the interface list of a class reach the
\* interface type A, the casts of the class and of an object of the class to A
\* return none; when exactly one entry reaches A, the class cast returns that
\* entry and the object cast returns the object.
C17_AmbiguousCastIsNone ==
    (last.op \in Casts /\ last.class # NoClass /\ last.name \in DOMAIN type_table)
    => /\ Cardinality(EntriesReaching(last.class, type_table[last.name])) >= 2
          => (aborted = "" /\ last.ret = NoClass /\ last.obj = NULL)
       /\ Cardinality(EntriesReaching(last.class, type_table[last.name])) = 1
          => /\ aborted = ""
             /\ last.op \in ClassCasts
                => {last.ret} = EntriesReaching(last.class, type_table[last.name])
             /\ last.op = "object_dynamic_cast" => last.obj # NULL

\* object_dynamic_cast of an object of "sub" to "ifoo", which the entries for
\* "ifoo" (inherited from "impl") and for "ibar" both reach, returned NULL
C17_Witness ==
    /\ last.op = "object_dynamic_cast"
    /\ last.class # NoClass
    /\ last.class = types[type_table["sub"]].class
    /\ last.name = "ifoo"
    /\ Cardinality(EntriesReaching(last.class, type_table["ifoo"])) = 2
    /\ last.obj = NULL
    /\ aborted = ""

\* C18: for a class and a registered target type that is not an interface type,
\* object_class_dynamic_cast returns the class itself iff the target is the type
\* of the class or one of its ancestors, and none otherwise; for a name that is
\* not registered, or a NULL class, it returns none.
C18_ClassCastToAncestor ==
    last.op \in ClassCasts
    => /\ aborted = ""
       /\ (last.class = NoClass \/ last.name \notin DOMAIN type_table)
          => last.ret = NoClass
       /\ (/\ last.class # NoClass
           /\ last.name \in DOMAIN type_table
           /\ TYPE_INTERFACE \notin NameChain(last.name))
          => last.ret = IF type_table[last.name] \in TypeChain(classes[last.class].type)
                        THEN last.class ELSE NoClass

\* C19: object_class_dynamic_cast and object_dynamic_cast never end the process,
\* whatever the class and the target name.
C19_CastsAreNotFatal ==
    last.op \in Casts => aborted = ""

\* C20: for a class that is not NULL, object_class_dynamic_cast_assert returns
\* what object_class_dynamic_cast returns when that is a class, and ends the
\* process when object_class_dynamic_cast returns none.
C20_AssertCastIsFatalOnNone ==
    [][(last'.op = "object_class_dynamic_cast_assert" /\ last'.class # NoClass)
       => IF object_class_dynamic_cast(State, last'.class, last'.name).ret # NoClass
          THEN /\ aborted' = ""
               /\ last'.ret =
                     object_class_dynamic_cast(State, last'.class, last'.name).ret
          ELSE aborted' # ""]_vars

\* C21: object_dynamic_cast_assert returns the object when object_dynamic_cast on
\* it succeeds, and ends the process when the object is not an instance of the
\* named type (or is NULL).
C21_ObjectAssertCastIsFatalOnFailure ==
    [][last'.op = "object_dynamic_cast_assert"
       => IF /\ last'.class # NoClass
             /\ object_class_dynamic_cast(State, last'.class, last'.name).ret
                    # NoClass
          THEN aborted' = "" /\ last'.obj # NULL
          ELSE aborted' # ""]_vars

\* C22: for two registered names a and b, is_compatible_type(a, b) returns true
\* iff b is a or is on the chain of parent names of a, and false otherwise, also
\* when a declares or inherits the interface b.
C22_CompatibleIffOnParentChain ==
    (/\ last.op = "is_compatible_type"
     /\ last.name \in DOMAIN type_table
     /\ last.class \in DOMAIN type_table)
    => /\ aborted = ""
       /\ last.ret = (last.class \in NameChain(last.name))

\* C23: is_compatible_type ends the process when one of the two names (or both)
\* is not registered.
C23_CompatibleFatalOnMissingName ==
    (/\ last.op = "is_compatible_type"
     /\ last.name \notin DOMAIN type_table \/ last.class \notin DOMAIN type_table)
    => aborted # ""

-----------------------------------------------------------------------------
(* Properties of name resolution during class initialisation (SpecChain).  *)

\* the registered names reached from the names in `set` in at most n steps along
\* the parent names
RECURSIVE Reach(_, _)
Reach(set, n) ==
    IF n = 0 THEN set
    ELSE Reach(set \cup ({types[type_table[m]].parent : m \in set}
                        \cap DOMAIN type_table),
               n - 1)

\* the registered name `name` and its registered ancestors, also on a cycle
Ancestry(name) == Reach({name}, Cardinality(DOMAIN type_table))

\* an ancestor-or-self of `name` names a parent that is not registered
MissingParent(name) ==
    \E m \in Ancestry(name) :
        types[type_table[m]].parent \notin DOMAIN type_table \cup {NoName}

\* an ancestor-or-self of `name` declares an interface that is not registered
MissingInterface(name) ==
    \E m \in Ancestry(name) :
        \E i \in DOMAIN types[type_table[m]].interfaces :
            types[type_table[m]].interfaces[i] \notin DOMAIN type_table

\* `name` is on a cycle of parent names, or below one
OnCycle(name) ==
    \E m \in Ancestry(name) : m \in Reach({types[type_table[m]].parent}
                                             \cap DOMAIN type_table,
                                          Cardinality(DOMAIN type_table))

\* the calls that initialise the class of the type they name
Materializing == {"object_class_by_name", "object_new", "object_initialize"}

\* the process ended at an assertion or abort() of the program
Diagnosed ==
    aborted \notin {"", "NULL TypeImpl dereferenced",
                    "unbounded recursion on a parent cycle",
                    "store past the end of TypeImpl.interfaces"}

\* C24: a type can be registered in the lazy phase before its parent, and its
\* class is initialised without a fatal error once every parent and interface
\* name on its chain is registered; initialising the class of a type with a
\* parent name or a declared interface name that is not registered ends the
\* process at a run-time check.
C24_UnresolvedNamesAreFatal ==
    /\ (/\ last.op = "type_register"
         /\ InfoOf(last.name).type_init_phase = OBJECT_NEW_PHASE
         /\ aborted # "")
        => aborted = "Registering type which already exists"
    /\ (last.op \in Materializing /\ last.name \in DOMAIN type_table)
        => IF MissingParent(last.name) \/ MissingInterface(last.name)
           THEN Diagnosed
           ELSE aborted # "assertion failed: ( type->parent_type != NULL )"

\* C25: class initialisation terminates: no call runs forever, and a call that
\* initialises the class of a type on (or below) a cycle of parent names ends the
\* process with a fatal error.
C25_CyclesAreFatal ==
    /\ aborted # "unbounded recursion on a parent cycle"
    /\ (/\ last.op \in Materializing
        /\ last.name \in DOMAIN type_table
        /\ OnCycle(last.name))
       => Diagnosed

\* every parent and interface name on the chain of the registered type `name` is
\* registered, and the chain is not a cycle
Resolvable(name) ==
    ~MissingParent(name) /\ ~MissingInterface(name) /\ ~OnCycle(name)

\* C26: object_class_by_name(n) on a registered name n (whose chain resolves)
\* initialises the class of n and returns it, and the name of the type of the
\* class returned is n; on a name that is not registered, or NULL, it returns
\* NULL, is not fatal and changes nothing in the registry.
C26_ClassByNameReturnsNamedClass ==
    [][last'.op = "object_class_by_name"
       => IF last'.name \in DOMAIN type_table
          THEN /\ Resolvable(last'.name) => aborted' = ""
               /\ aborted' = ""
                  => /\ last'.ret # NoClass
                     /\ last'.ret = types'[type_table[last'.name]].class
                     /\ types'[classes'[last'.ret].type].name = last'.name
          ELSE /\ aborted' = ""
               /\ last'.ret = NoClass
               /\ type_table' = type_table
               /\ types' = types
               /\ classes' = classes]_vars

\* object_class_by_name("abs") returned the class of "abs", which it initialised
\* together with the class of its parent "base"
C26_Witness ==
    /\ last.op = "object_class_by_name"
    /\ last.name = "abs"
    /\ aborted = ""
    /\ "abs" \in DOMAIN type_table
    /\ last.ret = types[type_table["abs"]].class
    /\ types[classes[last.ret].type].name = "abs"
    /\ \E i \in Events : Is(i, "class_init", TYPE_BASE)

-----------------------------------------------------------------------------
(* Properties of the moment of class initialisation (SpecLazy).            *)

\* the calls during which a class can be initialised
Triggers ==
    {"type_register", "object_new", "object_initialize", "object_class_by_name",
     "object_class_get_parent", "object_class_foreach_tramp"}

\* the names on the chain of parent names of the TypeInfo of `name`
RECURSIVE InfoAncestors(_)
InfoAncestors(name) ==
    IF InfoOf(name).parent = NoName THEN {}
    ELSE {InfoOf(name).parent} \cup InfoAncestors(InfoOf(name).parent)

-----------------------------------------------------------------------------
(* Properties that relate casts and is_compatible_type (SpecCast).         *)

\* the interface names in the TypeInfo of `name`
Declares(name) ==
    {InfoOf(name).interfaces[i] : i \in DOMAIN InfoOf(name).interfaces}

\* C28: for a type C that is not abstract and declares the interface I,
\* is_compatible_type(C, I) returns false, and object_dynamic_cast of an object
\* of C to I returns the object.
C28_InterfaceCastButNotCompatible ==
    /\ (/\ last.op = "is_compatible_type"
        /\ last.name \in DOMAIN type_table
        /\ ~InfoOf(last.name).abstract
        /\ last.class \in Declares(last.name))
       => (aborted = "" /\ last.ret = FALSE)
    /\ (/\ last.op = "object_dynamic_cast"
        /\ last.class # NoClass
        /\ last.name \in Declares(types[classes[last.class].type].name))
       => (aborted = "" /\ last.obj # NULL)

\* C30: the interface list of a class has no two entries such that the interface
\* type of one is the interface type of the other or a subtype of it.
C30_NoCoveredInterfaceEntries ==
    \A c \in DOMAIN classes :
        \A i, j \in DOMAIN classes[c].interfaces :
            i # j
            => types[classes[classes[c].interfaces[j]].interface_type].name
                  \notin NameChain(
                      types[classes[classes[c].interfaces[i]].interface_type].name)

-----------------------------------------------------------------------------
(* Properties of the enumeration with a filter (SpecEach).                 *)

\* the registered types an enumeration with the parameters of frame f passes to
\* its callback: not abstract unless include_abstract, and with a class that
\* object_class_dynamic_cast casts to implements_type unless that is NULL
Selected(f) ==
    {n \in DOMAIN type_table :
        /\ f.include_abstract \/ ~types[type_table[n]].abstract
        /\ \/ f.implements_type = NoName
           \/ object_class_dynamic_cast(State, types[type_table[n]].class,
                                        f.implements_type).ret # NoClass}

\* C29: when object_class_foreach (object_class_get_list) returns, the class of
\* every registered type is initialised, and the callback was called exactly once
\* for each registered type that is not abstract (or include_abstract is set) and
\* whose class casts to implements_type (or implements_type is NULL), and for no
\* other class; the classes made for the interfaces of a type are not among them.
C29_ForeachCallsSelectedOnce ==
    [][last'.op = "object_class_foreach_return"
       => /\ \A n \in DOMAIN type_table : types[type_table[n]].class # NoClass
          /\ \A n \in DOMAIN Top.called : Top.called[n] = 1
          /\ DOMAIN Top.called = Selected(Top)
          /\ \A n \in DOMAIN Top.called :
                \A c \in DOMAIN classes :
                   classes[c].concrete_class # NoClass
                   => types[type_table[n]].class # c]_vars

\* object_class_foreach with implements_type "ifoo" and include_abstract has
\* visited every type: the callback was called for "ifoo" and for "impl", and the
\* class "impl::ifoo" exists
C29_Witness ==
    /\ enum_stack # <<>>
    /\ Top.implements_type = "ifoo"
    /\ Top.include_abstract
    /\ Top.fn = "fn"
    /\ Top.visited = DOMAIN type_table
    /\ DOMAIN Top.called = {"ifoo", "impl"}
    /\ "impl::ifoo" \in DOMAIN classes

-----------------------------------------------------------------------------
(* Properties of finalisation, sizes and the bounds of the descriptors.    *)

\* C31: when a call has finalized an object, the reference count of the object is
\* zero and the properties table that its initialisation created has been
\* released.
C31_FinalizedReleasesResources ==
    [][\A o \in Storages :
          (objects'[o].finalized # objects[o].finalized /\ aborted' = "")
          => /\ objects'[o].ref = U32Zero
             /\ ~objects'[o].properties]_vars

-----------------------------------------------------------------------------
(* Properties of the interface lists (SpecIface).                          *)

\* the interface list of the class of the registered, initialised type `name`
InterfacesOf(name) == classes[types[type_table[name]].class].interfaces

\* the name of the interface type of entry i of that list
InterfaceName(name, i) ==
    types[classes[InterfacesOf(name)[i]].interface_type].name

\* the number of entries the list of `name` takes over from the parent's list
Inherited(name) ==
    IF types[type_table[name]].parent = NoName THEN 0
    ELSE Len(InterfacesOf(types[type_table[name]].parent))

\* the position of the interface name `iname` in the TypeInfo of `name`
DeclaredAt(name, iname) ==
    CHOOSE k \in DOMAIN InfoOf(name).interfaces :
        InfoOf(name).interfaces[k] = iname

\* C32: in the interface list of the class C of an initialised type, every entry
\* is the class of a type named "C::I" that is not in the registry (a lookup of
\* the name finds nothing), its concrete_class is C and its interface_type is a
\* registered descendant of "interface"; the list starts with one entry for each
\* entry of the parent's list, with the same interface types in the same order,
\* and continues with entries for interfaces the type declares, in the order of
\* declaration, a declared interface being left out only when the list has an entry
\* for that interface or for a subtype of it.
C32_InterfaceListShape ==
    aborted = "" =>
    \A n \in DOMAIN type_table :
        Materialized(n) =>
        /\ \A i \in DOMAIN InterfacesOf(n) :
              /\ classes[InterfacesOf(n)[i]].concrete_class
                    = types[type_table[n]].class
              /\ InterfaceName(n, i) \in DOMAIN type_table
              /\ type_table[InterfaceName(n, i)]
                    = classes[InterfacesOf(n)[i]].interface_type
              /\ TYPE_INTERFACE \in NameChain(InterfaceName(n, i))
              /\ types[classes[InterfacesOf(n)[i]].type].name
                    = n \o "::" \o InterfaceName(n, i)
              /\ types[classes[InterfacesOf(n)[i]].type].class = InterfacesOf(n)[i]
              /\ type_get_by_name(State, n \o "::" \o InterfaceName(n, i)) = NoType
              /\ \A m \in DOMAIN type_table :
                    type_table[m] # classes[InterfacesOf(n)[i]].type
        /\ Inherited(n) <= Len(InterfacesOf(n))
        /\ \A i \in 1..Inherited(n) :
              classes[InterfacesOf(n)[i]].interface_type
                 = classes[InterfacesOf(types[type_table[n]].parent)[i]]
                      .interface_type
        /\ \A i \in (Inherited(n) + 1)..Len(InterfacesOf(n)) :
              /\ InterfaceName(n, i) \in Declares(n)
              /\ \A j \in (i + 1)..Len(InterfacesOf(n)) :
                    /\ InterfaceName(n, j) \in Declares(n)
                    /\ DeclaredAt(n, InterfaceName(n, i))
                          < DeclaredAt(n, InterfaceName(n, j))
        /\ \A d \in Declares(n) :
              \/ \E i \in (Inherited(n) + 1)..Len(InterfacesOf(n)) :
                    InterfaceName(n, i) = d
              \/ \E i \in DOMAIN InterfacesOf(n) : d \in NameChain(InterfaceName(n, i))

\* the class of "sub" is initialised: its list holds the entry for "ifoo" taken
\* over from "impl" and the entry for "ibar" that "sub" declares, and neither
\* "sub::ifoo" nor "sub::ibar" is in the registry
C32_Witness ==
    /\ aborted = ""
    /\ Materialized("sub")
    /\ Len(InterfacesOf("sub")) = 2
    /\ Len(InterfacesOf("impl")) = 1
    /\ InterfaceName("sub", 1) = "ifoo"
    /\ InterfaceName("sub", 2) = "ibar"
    /\ types[classes[InterfacesOf("sub")[1]].type].name = "sub::ifoo"
    /\ {"sub::ifoo", "sub::ibar"} \cap DOMAIN type_table = {}

-----------------------------------------------------------------------------
(* Properties of the frame of class initialisation (SpecFrame).            *)

\* C33: a call that initialises the class of a type (with the classes of its
\* interfaces and the class_base_init hooks of its ancestors) leaves every class
\* structure that existed before the call as it was: its type pointer, its
\* interface list, its method pointers and the fields of an interface class.
C33_OtherClassesUnchanged ==
    [][\A c \in DOMAIN classes :
          /\ c \in DOMAIN classes'
          /\ classes'[c] = classes[c]
          /\ types'[classes[c].type].class = c]_vars

\* object_class_by_name("tip") initialised the class of "tip" when the class of
\* its parent "leaf" and the class of "impl" with its entry for "ifoo" existed:
\* the class_base_init hooks of "leaf" and "derived" ran on the class of "tip"
C33_Witness ==
    /\ last.op = "object_class_by_name"
    /\ last.name = "tip"
    /\ aborted = ""
    /\ \E i \in Events : Is(i, "class_base_init", "leaf") /\ last.trace[i].on = "tip"
    /\ \E i \in Events : Is(i, "class_base_init", "derived")
    /\ ~\E i \in Events : Is(i, "class_init", "leaf")
    /\ Materialized("impl")
    /\ Len(InterfacesOf("impl")) = 1
    /\ classes[types[type_table["leaf"]].class].methods[2] = "leaf"

-----------------------------------------------------------------------------
(* Properties of the sizes (SpecSize).                                     *)

\* the first non-zero class_size on the parent chain of the TypeInfos, or the
\* size of ObjectClass
RECURSIVE EffectiveClassSize(_)
EffectiveClassSize(name) ==
    IF InfoOf(name).class_size # 0 THEN InfoOf(name).class_size
    ELSE IF InfoOf(name).parent = NoName THEN SizeofObjectClass
    ELSE EffectiveClassSize(InfoOf(name).parent)

\* C34: the instance size of an initialised type is the first non-zero
\* instance_size on its parent chain, or 0, and then the type is abstract; its
\* class size is the first non-zero class_size on the chain, or the size of
\* ObjectClass; object_type_get_instance_size returns that instance size for a
\* registered name whose chain resolves, whether or not the class of the type is
\* initialised, and ends the process for a name that is not registered.
C34_EffectiveSizes ==
    /\ aborted = ""
       => \A n \in DOMAIN type_table :
             Materialized(n)
             => /\ types[type_table[n]].instance_size = EffectiveInstanceSize(n)
                /\ types[type_table[n]].class_size = EffectiveClassSize(n)
                /\ EffectiveInstanceSize(n) = 0 => types[type_table[n]].abstract
    /\ last.op = "object_type_get_instance_size"
       => IF last.name \in DOMAIN type_table
          THEN Resolvable(last.name)
               => (aborted = "" /\ last.ret = EffectiveInstanceSize(last.name))
          ELSE aborted # ""

\* object_type_get_instance_size("leaf") returned the size of Base, found two
\* steps up the chain, while the class of "leaf" is not initialised
C34_Witness ==
    /\ last.op = "object_type_get_instance_size"
    /\ last.name = "leaf"
    /\ aborted = ""
    /\ ~Materialized("leaf")
    /\ InfoOf("leaf").instance_size = 0
    /\ last.ret = SizeofBase

-----------------------------------------------------------------------------
(* Properties of the checks on the sizes (SpecStruct).                     *)

\* the registered type `name` or one of its ancestors has a smaller class size
\* than its parent
NarrowClass(name) ==
    \E m \in Ancestry(name) :
        /\ InfoOf(m).parent # NoName
        /\ EffectiveClassSize(m) < EffectiveClassSize(InfoOf(m).parent)

\* the call has produced no object: it returned none, or the storage it was given
\* is as it was
NoObject == last.obj = NULL \/ objects[last.obj].state = "raw"

\* C35: a call that initialises the class of a type whose class size (or that of
\* an ancestor) is smaller than its parent's ends the process at a run-time check;
\* so do object_new and object_initialize for a type whose instance size is not
\* zero and smaller than the Object header, and object_initialize with a buffer
\* smaller than the instance size of the type; none of these calls produces an
\* object, and every object has at least the size of the Object header and fits
\* its storage.
C35_StructuralViolationsAreFatal ==
    /\ (/\ last.op \in Materializing
        /\ last.name \in DOMAIN type_table
        /\ Resolvable(last.name)
        /\ NarrowClass(last.name))
       => (Diagnosed /\ NoObject)
    /\ (/\ last.op \in {"object_new", "object_initialize"}
        /\ last.name \in DOMAIN type_table
        /\ Resolvable(last.name)
        /\ EffectiveInstanceSize(last.name) # 0
        /\ EffectiveInstanceSize(last.name) < SizeofObject)
       => (Diagnosed /\ NoObject)
    /\ (/\ last.op = "object_initialize"
        /\ last.name \in DOMAIN type_table
        /\ Resolvable(last.name)
        /\ objects[last.obj].size < EffectiveInstanceSize(last.name))
       => (Diagnosed /\ NoObject)
    /\ \A o \in Storages :
          objects[o].state # "raw"
          => /\ types[classes[objects[o].class].type].instance_size >= SizeofObject
             /\ types[classes[objects[o].class].type].instance_size <= objects[o].size

\* object_new("slim") ended the process at the check of the class sizes, made
\* when the class of its parent "narrow" was initialised, and allocated nothing
C35_Witness ==
    /\ last.op = "object_new"
    /\ last.name = "slim"
    /\ aborted = "assertion failed (parent->class_size <= ti->class_size)"
    /\ last.obj = NULL
    /\ objects = <<>>
    /\ EffectiveClassSize("slim") < EffectiveClassSize(TYPE_BASE)

-----------------------------------------------------------------------------
(* Properties of the reference count (SpecLife).                           *)

\* C36: object_ref(NULL) and object_unref(NULL) do nothing: the process goes on,
\* no hook runs, and every object, the registry, the descriptors and the classes
\* are as they were.
C36_NullRefUnrefAreNoOps ==
    [][(last'.op \in {"object_ref", "object_unref"} /\ last'.obj = NULL)
       => /\ aborted' = ""
          /\ last'.trace = <<>>
          /\ objects' = objects
          /\ type_table' = type_table
          /\ types' = types
          /\ classes' = classes]_vars

\* object_unref(NULL) returned while an object was live
C36_Witness ==
    /\ last.op = "object_unref"
    /\ last.obj = NULL
    /\ aborted = ""
    /\ \E o \in Storages : objects[o].state = "live"

-----------------------------------------------------------------------------
(* Properties of abstract types (Spec).                                    *)

\* the registered type `name` was registered with abstract = false and with a
\* size of its own or an inherited one, below a registered abstract parent
ConcreteBelowAbstract(name) ==
    /\ name \in DOMAIN type_table
    /\ ~InfoOf(name).abstract
    /\ EffectiveInstanceSize(name) # 0
    /\ InfoOf(name).parent \in DOMAIN type_table
    /\ types[type_table[InfoOf(name).parent]].abstract
    /\ Resolvable(name)

-----------------------------------------------------------------------------
(* Properties of the bounds of the descriptors (SpecWide).                 *)

\* C39: a descriptor holds at most MAX_INTERFACES interface names, and no
\* registration stores a name past the end of the array of the descriptor.
C39_InterfacesWithinArray ==
    /\ \A t \in DOMAIN types : Len(types[t].interfaces) <= MAX_INTERFACES
    /\ aborted # "store past the end of TypeImpl.interfaces"

=============================================================================
